---- MODULE Spec2Model ----
(***************************************************************************)
(* Packet I/O core of s2n-quic-platform: the ring pair of io/channel.rs    *)
(* (Unfilled / Filled ends, UnfilledSlice::push, FilledSlice::pop/finish,  *)
(* Entry::next_segment) and the socket drivers of socket/msg.rs and        *)
(* socket/std.rs that run on its two ends.                                 *)
(*                                                                         *)
(* An Option<Entry> is a sequence of length 0 (None) or 1 (Some(e)).       *)
(* An entry is a record of InnerEntry's handle and ecn and of its Buffer's *)
(* four u16 fields; data is left out, a region of it is a pair of offsets. *)
(* InnerEntry.id and .queue are set by pair_inner and read by no operation *)
(* of a pair: the entries of a pair are told apart by the ghost stamp.     *)
(*                                                                         *)
(* A panic (a slice index out of range, chunks(0), a failed assertion of a *)
(* debug build) stops the model: `panicked` records it, the state is that  *)
(* before the call, and no action is enabled after.  Init is the release   *)
(* build, whose runs extend those of the debug build.                      *)
(***************************************************************************)
EXTENDS Integers, Sequences, FiniteSets, TLC

VARIABLES
    unfilled,   \* the unfilled queue: Unfilled.local / Filled.remote
    filled,     \* the filled queue: Unfilled.remote / Filled.local
    ubuf,       \* Unfilled.buffer : Option<Entry>
    fbuf,       \* Filled.buffer : Option<Entry>
    hand,       \* the entry the rx::Queue user holds between pop and finish
    uslice,     \* who holds an UnfilledSlice: "none", "push", "msg_rx", "std_rx"
    fslice,     \* who holds a FilledSlice: "none", "queue", "msg_tx", "std_tx"
    rxcount,    \* `count` of the running msg Rx::apply
    txcount,    \* `count` of the running msg Tx::apply
    wiring,     \* who uses the two ends of the pair: [producer, consumer]
    debug,      \* cfg!(debug_assertions) of the build
    panicked,   \* "no", or the panic that ended the run
    nextSeq,    \* ghost: number of pushes to the filled queue so far, plus one
    delivered,  \* ghost: stamp of the entry the consumer popped last
    last,       \* ghost: the operation that led to this state and its outcome
    track,      \* ghost: what the run records: a subset of Ghosts
    closed,     \* the ends of the pair that were dropped: a subset of Ends
    ucap,       \* what Unfilled.local.capacity() returns
    txwait,     \* the tx_ready() future of the tx::Queue user
    atcap,      \* ghost: the last push of the tx::Queue user returned AtCapacity
    pc,         \* where EventLoop::start is: "off" when no event loop runs
    rx_result,  \* the rx_result of the Outcome of Select: "None", "Ok" or "Err"
    tx_result,  \* the tx_result of the Outcome of Select
    rxq,        \* the filled queue of the RX pair of the event loop
    rxdropped,  \* the socket RX task dropped the Unfilled end of the RX pair
    calls,      \* ghost: the calls of the endpoint in this iteration of the loop
    timer,      \* the argument of the last timer.update(..) of the loop, None before the first
    set_unfilled,  \* the unfilled queue of each pair of a ring set
    set_filled,    \* the filled queue of each pair of the set
    set_capacity,  \* what inner[k].local.capacity() returns, for each Unfilled of the set
    cursor,        \* UnfilledSet.cursor
    set_slice,     \* the pair whose UnfilledSlice the producer of the set holds
    set_cursor,    \* FilledSetSlice.cursor of the slice the consumer of the set holds
    set_hand,      \* the entries the consumer of the set holds between pop and finish
    set_closed,    \* the ends of the set that were dropped: a subset of Ends
    targets,       \* ghost: the pair each try_slice went to, until tx_ready is polled
    polled,        \* ghost: UnfilledSet::tx_ready was polled
    counters,      \* the two AtomicU32 of an XDP ring and its size
    producer,      \* the Cursors of the producer of the ring: its two cached values
    consumer,      \* the Cursors of the consumer of the ring
    releasing,     \* the len of the release each side is in the middle of, if any
    oracle,        \* ghost: the free entries and the filled entries of the ring
    retry,         \* ghost: the syscalls of the running apply on the slot it is at
    tick,          \* ghost: the parity of the number of syscalls of the msg drivers
    rxtask         \* where the socket RX task msg::rx is: "off" when none was spawned

vars == <<unfilled, filled, ubuf, fbuf, hand, uslice, fslice, rxcount, txcount,
          wiring, debug, panicked, nextSeq, delivered, last, track,
          closed, ucap, txwait, atcap, pc, rx_result, tx_result, rxq, rxdropped,
          calls, timer, set_unfilled, set_filled, set_capacity, cursor, set_slice,
          set_cursor, set_hand, set_closed, targets, polled,
          counters, producer, consumer, releasing, oracle, retry, tick, rxtask>>

(***************************************************************************)
(* Bounds of the model                                                     *)
(***************************************************************************)
\* max_payload of pair(max_payload, count): the length of each entry's data
MaxPayload == 2
\* count of pair(max_payload, count): the number of entries, the capacity of both queues
Count == 2
\* pushes to the filled queue in a run that counts them
MaxPushes == 3
\* largest value of the `count` of one call of msg Tx::apply or Rx::apply that
\* is told from the larger ones; the code only tests count == 0
MaxApplyCount == 1
\* the GRO segment size of a receive that reports one
MaxGro == 1
\* largest segment_count tx push is let to reach
MaxSegments == 2
\* len of set(max_payload, count, len): the number of pairs of a ring set
SetLen == 3
\* calls of UnfilledSet::try_slice in a run that polls no tx_ready
MaxSetCalls == 6
\* the bits of the counters of an XDP ring, which are u32 in the code
CursorBits == 3
\* largest size of an XDP ring, less than 2^CursorBits as a u16 is less than 2^32
MaxRingSize == 3
\* the latest timestamp that endpoint.timeout() returns
MaxTime == 2
\* largest number of syscalls on one slot that is told from the larger ones
MaxRetries == 2
\* how far from 2^16 / k the lengths and the GRO segment sizes of a slot of
\* pair(u16::MAX, 4096) are taken
MaxSlack == 2

\* u16 arithmetic of the cursors
U16Mod == 65536

U16(x) == x % U16Mod

Min(a, b) == IF a <= b THEN a ELSE b

None == <<>>
Some(e) == <<e>>

\* path handles (0 is Default::default()) and ECN markings (0 is the default, Not-ECT)
DefaultHandle == 0
DefaultEcn == 0
Handles == {DefaultHandle, 1}
Ecns == {DefaultEcn, 1}

(***************************************************************************)
(* Ghosts                                                                  *)
(***************************************************************************)
\* what a run can record: the stamp of each push to the filled queue ("seq"),
\* or their number only ("count"), the writes of tx push ("writes"), the regions
\* next_segment returned ("reads"), and in `last` the outcome of the operation
\* that led to the state, if that was a tx push ("push"), a next_segment
\* ("next_segment"), the drop of a slice ("drop"), a poll of poll_slice
\* ("poll_slice") or a poll of tx_ready ("tx_ready"); a run that polls tx_ready
\* keeps what it reads, the length the Unfilled end saw last ("capacity"); on
\* a ring set, the finish of the consumer in `last` ("set_finish") and the
\* pair of each try_slice of the producer ("targets"); on the cursors of an XDP
\* ring, what an acquire returned ("acquire") and the length of a release
\* ("release"); in a msg driver, the syscalls on one slot after one failed
\* ("retries") and the parity of the syscalls made ("syscalls"); on a Buffer,
\* the resets made on it ("reset"); of an iteration of a socket driver, the
\* result of its syscall, the entry it popped and the length before it of the
\* queue it pushes to ("tx_step", "std_tx_step", "rx_step", "std_rx_step")
Ghosts == {"seq", "count", "writes", "reads", "push", "next_segment", "drop",
           "poll_slice", "tx_ready", "capacity", "set_finish", "targets", "acquire",
           "release", "retries", "syscalls", "reset", "tx_step", "std_tx_step",
           "rx_step", "std_rx_step", "finish", "timeout", "set_poll", "set_pop",
           "set_tx_ready", "sends"}

\* stamp an entry as the n-th push to the filled queue
Stamp(e, n) == IF "seq" \in track THEN [e EXCEPT !.seq = n] ELSE e

\* n more pushes to the filled queue
Counted(n) == IF track \cap {"seq", "count"} # {} THEN n ELSE 0

\* tx push wrote len bytes of message m to the entry, and flushed it or not
Written(e, m, len, flush) ==
    IF "writes" \in track
    THEN [e EXCEPT !.writes = Append(e.writes, len), !.mecn = m.ecn, !.forced = flush]
    ELSE e

\* next_segment returned data[start..end] of the entry
Read(e, start, end) ==
    IF "reads" \in track THEN [e EXCEPT !.reads = Append(e.reads, <<start, end>>)] ELSE e

\* an entry that enters the unfilled queue starts a new use
Fresh(e) ==
    [e EXCEPT !.seq = 0, !.writes = <<>>, !.mecn = DefaultEcn, !.forced = FALSE,
              !.reads = <<>>]

\* the length of the unfilled queue as the Unfilled end saw it
Cached(n) == IF "capacity" \in track THEN n ELSE 0

NoOp == [op |-> "none", res |-> "none"]

Op(op, res) == IF op \in track THEN [op |-> op, res |-> res] ELSE NoOp

\* an apply that has made no syscall on the slot it is at
NoRetry == [failed |-> FALSE, n |-> 0]

\* the syscalls of an apply on one slot after a syscall on it failed: after an
\* iteration that made a syscall or not (made), which failed or not (err) and
\* left the slot in the buffer or not (kept)
Retried(g, made, err, kept) ==
    IF "retries" \notin track \/ ~made
    THEN g
    ELSE [failed |-> kept /\ (err \/ g.failed),
          n |-> IF g.failed THEN Min(g.n + 1, MaxRetries) ELSE 0]

\* one more syscall, if the iteration made one
Ticked(t, made) == IF "syscalls" \in track /\ made THEN 1 - t ELSE t

(***************************************************************************)
(* Buffer (channel.rs)                                                     *)
(***************************************************************************)
\* a Buffer::reset that leaves the entry as it is
ResetNothing(e) == e

\* a Buffer::reset that leaves the read cursor where it is
ResetKeepsRead(e) ==
    [e EXCEPT !.segment_size = 0, !.segment_count = 0, !.segment_write_cursor = 0]

\* Buffer::reset
Reset(e) ==
    [e EXCEPT !.segment_size = 0, !.segment_count = 0,
              !.segment_write_cursor = 0, !.segment_read_cursor = 0]

\* Buffer::invariants: TRUE iff none of its assertions fails
InvariantsOk(e) ==
    /\ IF e.segment_count > 0
       THEN /\ e.segment_size # 0
            /\ e.segment_write_cursor # 0
       ELSE /\ e.segment_size = 0
            /\ e.segment_write_cursor = 0
            /\ e.segment_read_cursor = 0
    /\ e.segment_write_cursor >= e.segment_read_cursor

\* a call of Buffer::invariants panics only in a debug build
InvariantsPanic(e) == debug /\ ~InvariantsOk(e)

\* pair_inner: an entry as it is put in the unfilled queue (Buffer::new)
NewEntry ==
    [handle |-> DefaultHandle, ecn |-> DefaultEcn,
     segment_size |-> 0, segment_count |-> 0,
     segment_write_cursor |-> 0, segment_read_cursor |-> 0,
     seq |-> 0, writes |-> <<>>, mecn |-> DefaultEcn, forced |-> FALSE, reads |-> <<>>]

\* pair_inner: the unfilled queue holds all count entries
PairInner == [i \in 1..Count |-> NewEntry]

(***************************************************************************)
(* SPSC queue (s2n_quic_core::sync::spsc): a bounded FIFO of capacity      *)
(* count; push fails when the queue is full, and every caller in           *)
(* channel.rs then drops the value (let _ = remote.push(entry))            *)
(***************************************************************************)
SpscPush(q, e) == IF Len(q) < Count THEN Append(q, e) ELSE q

SpscPop(q) ==
    IF q = <<>>
    THEN [value |-> None, queue |-> q]
    ELSE [value |-> Some(Head(q)), queue |-> Tail(q)]

\* a pop of the queue by an end whose buffer is empty
QueuePop(q) == [value |-> SpscPop(q).value, buffer |-> None, queue |-> SpscPop(q).queue]

\* try_slice of the receiving half: Some when the queue holds an item
RecvTrySlice(q) == q # <<>>

\* try_slice of the sending half: Some when the queue has room
SendTrySlice(q) == Len(q) < Count

\* poll_slice of the receiving half: a slice when the queue holds an item, Closed
\* when it holds none and the sending half was dropped, Pending otherwise
RecvPollSlice(q, dropped) ==
    IF q # <<>> THEN "Ok" ELSE IF dropped THEN "Err" ELSE "Pending"

\* poll_slice of the sending half: Closed when the receiving half was dropped, a
\* slice when the queue has room, Pending otherwise
SendPollSlice(q, dropped) ==
    IF dropped THEN "Err" ELSE IF Len(q) < Count THEN "Ok" ELSE "Pending"

\* the push of an entry to the unfilled queue
UnfilledSend(q, e) == SpscPush(q, Fresh(e))

\* the push of an entry to the filled queue, the n-th of the run
FilledSend(q, e, n) == SpscPush(q, Stamp(e, n))

(***************************************************************************)
(* tx::Message: path_handle(), ecn(), the answer of can_gso(..) and the    *)
(* result of write_payload(..): WriterErr is Err, otherwise the length     *)
(***************************************************************************)
WriterErr == -1

MessagesOf(hs, es) ==
    [handle : hs, ecn : es, gso : BOOLEAN, wr : {WriterErr} \cup (0..MaxPayload)]

Messages == MessagesOf(Handles, Ecns)

\* messages that differ in what decides the path through push only
PlainMessages == MessagesOf({DefaultHandle}, {DefaultEcn})

(***************************************************************************)
(* Unfilled end (channel.rs)                                               *)
(***************************************************************************)
\* Entry::can_gso
CanGso(e, m) ==
    IF e.segment_size = 0
    THEN TRUE
    ELSE m.gso /\ e.ecn = m.ecn /\ e.handle = m.handle

\* UnfilledSlice::pop that looks at the queue only
UnfilledSlicePopQueueOnly(buf, q) == QueuePop(q)

\* UnfilledSlice::pop: the buffered entry, taken out of the buffer, or else the
\* head of the unfilled queue
UnfilledSlicePop(buf, q) ==
    IF buf # None
    THEN [value |-> buf, buffer |-> None, queue |-> q]
    ELSE QueuePop(q)

\* UnfilledSlice::push that drops the entry when the writer returned Err
PushRebufferDrops(entry) == None

\* UnfilledSlice::push, the writer returned Err: the entry goes back to the buffer
PushRebuffer(entry) == Some(entry)

\* UnfilledSlice::push, the region offered to the writer: data[..] when the local
\* segment_size is 0, data[start..start + segment_size] otherwise
PushRegionStart(e, segment_size) ==
    IF segment_size = 0 THEN 0 ELSE e.segment_write_cursor

PushRegionEnd(e, segment_size) ==
    IF segment_size = 0 THEN MaxPayload ELSE e.segment_write_cursor + segment_size

\* UnfilledSlice::push, the update after the writer returned Ok(len)
PushUpdate(e, segment_size, m, len) ==
    IF segment_size = 0
    THEN [e EXCEPT !.handle = m.handle,
                   !.segment_count = 1,
                   !.segment_size = len,
                   !.segment_write_cursor = len]
    ELSE [e EXCEPT !.segment_count = U16(e.segment_count + 1),
                   !.segment_write_cursor = U16(e.segment_write_cursor + len)]

\* UnfilledSlice::push, the test that flushes the entry right after the write
PushMustFlush(e, len) ==
    \/ len < e.segment_size
    \/ e.segment_write_cursor + e.segment_size > MaxPayload

\* UnfilledSlice::flush that forgets to put an entry without segments back
FlushBufferLossy(buf, q, n) ==
    IF buf # None /\ buf[1].segment_count > 0
    THEN [buffer |-> None, queue |-> FilledSend(q, buf[1], n), pushed |-> 1,
          panic |-> InvariantsPanic(buf[1])]
    ELSE [buffer |-> None, queue |-> q, pushed |-> 0, panic |-> FALSE]

\* UnfilledSlice::flush that pushes the buffered entry whatever its segment_count
FlushBufferAny(buf, q, n) ==
    IF buf # None
    THEN [buffer |-> None, queue |-> FilledSend(q, buf[1], n), pushed |-> 1,
          panic |-> InvariantsPanic(buf[1])]
    ELSE [buffer |-> None, queue |-> q, pushed |-> 0, panic |-> FALSE]

\* UnfilledSlice::flush that pushes nothing
FlushBufferKeeps(buf, q, n) ==
    [buffer |-> buf, queue |-> q, pushed |-> 0, panic |-> FALSE]

\* UnfilledSlice::flush, which Drop for UnfilledSlice runs
FlushBuffer(buf, q, n) ==
    IF buf # None /\ buf[1].segment_count > 0
    THEN [buffer |-> None, queue |-> FilledSend(q, buf[1], n), pushed |-> 1,
          panic |-> InvariantsPanic(buf[1])]
    ELSE [buffer |-> buf, queue |-> q, pushed |-> 0, panic |-> FALSE]

\* UnfilledSlice::push as a function of the state and the message: the outcome
\* `res`, the buffer and the two queues after the call, the number of pushes to
\* the filled queue, the segment_index offered to the writer and the entry written
PushOutcome(m) ==
    LET p1 == UnfilledSlicePop(ubuf, unfilled)
        stop(res, b, u, f, n) ==
            [res |-> res, ubuf |-> b, unfilled |-> u, filled |-> f, pushed |-> n,
             idx |-> -1, entry |-> None]
    IN
    IF p1.value = None
    THEN stop("AtCapacity", p1.buffer, p1.queue, filled, 0)
    ELSE
    LET e1 == p1.value[1]
        nongso == ~CanGso(e1, m)
        f1 == IF nongso THEN FilledSend(filled, e1, nextSeq) ELSE filled
        n1 == IF nongso THEN 1 ELSE 0
        p2 == IF nongso THEN UnfilledSlicePop(p1.buffer, p1.queue) ELSE p1
    IN
    IF nongso /\ InvariantsPanic(e1)
    THEN stop("panic_invariants", ubuf, unfilled, filled, 0)
    ELSE IF p2.value = None
    THEN stop("AtCapacity", p2.buffer, p2.queue, f1, n1)
    ELSE
    LET entry == p2.value[1]
        segment_size == IF nongso THEN 0 ELSE entry.segment_size
        segment_count == IF nongso THEN 0 ELSE entry.segment_count
        start == PushRegionStart(entry, segment_size)
        end == PushRegionEnd(entry, segment_size)
    IN
    IF end > MaxPayload
    THEN stop("panic_index", ubuf, unfilled, filled, 0)
    ELSE IF m.wr = WriterErr
    THEN [stop("WriterErr", PushRebuffer(entry), p2.queue, f1, n1)
            EXCEPT !.idx = segment_count]
    ELSE IF m.wr > end - start
    THEN stop("not_a_writer", ubuf, unfilled, filled, 0)
    ELSE
    LET len == U16(m.wr)
        written == PushUpdate(entry, segment_size, m, len)
        flush == PushMustFlush(written, len)
        done == Written(written, m, len, flush)
    IN
    IF InvariantsPanic(written)
    THEN stop("panic_invariants", ubuf, unfilled, filled, 0)
    ELSE [res |-> "Ok",
          ubuf |-> IF flush THEN p2.buffer ELSE Some(done),
          unfilled |-> p2.queue,
          filled |-> IF flush THEN FilledSend(f1, done, nextSeq + n1) ELSE f1,
          pushed |-> n1 + (IF flush THEN 1 ELSE 0),
          idx |-> segment_count,
          entry |-> Some(done)]

(***************************************************************************)
(* Filled end (channel.rs)                                                 *)
(***************************************************************************)
\* FilledSlice::pop that looks at the queue before the buffer
FilledSlicePopQueueFirst(buf, q) ==
    IF q # <<>>
    THEN [value |-> Some(Head(q)), buffer |-> buf, queue |-> Tail(q)]
    ELSE [value |-> buf, buffer |-> None, queue |-> q]

\* FilledSlice::pop: the buffered entry, or else the head of the filled queue
FilledSlicePop(buf, q) ==
    IF buf # None
    THEN [value |-> buf, buffer |-> None, queue |-> q]
    ELSE QueuePop(q)

\* Entry::next_segment, `end`: segment_write_cursor.min(start + segment_size) in u16
NextSegmentEnd(e) ==
    Min(e.segment_write_cursor, U16(e.segment_read_cursor + e.segment_size))

\* Entry::next_segment on an entry whose data has max_payload bytes: None,
\* Some(start..end), or a panic
NextSegmentOf(e, max_payload) ==
    LET start == e.segment_read_cursor
        end == NextSegmentEnd(e)
        moved == Read([e EXCEPT !.segment_read_cursor = end], start, end)
        stop(res) == [res |-> res, entry |-> e, start |-> start, end |-> start]
    IN
    IF e.segment_read_cursor = e.segment_write_cursor
    THEN stop("None")
    ELSE IF debug /\ start + e.segment_size >= U16Mod
    THEN stop("panic_overflow")
    ELSE IF InvariantsPanic(moved)
    THEN stop("panic_invariants")
    ELSE IF start > end \/ end > max_payload
    THEN stop("panic_index")
    ELSE [res |-> "Some", entry |-> moved, start |-> start, end |-> end]

\* Entry::next_segment on an entry of pair(MaxPayload, Count)
NextSegment(e) == NextSegmentOf(e, MaxPayload)

\* FilledSlice::finish, the entry it pushes to the unfilled queue
FinishEntry(e) == e

(***************************************************************************)
(* State changes shared by the operations                                  *)
(***************************************************************************)
Panics == {"panic_invariants", "panic_index", "panic_overflow", "panic_chunks",
           "panic_assert"}

IsPanic(res) == res \in Panics

Running == panicked = "no"

ProducerVars == <<ubuf, uslice, rxcount, nextSeq, ucap, txwait, atcap>>

ConsumerVars == <<fbuf, hand, fslice, txcount, delivered>>

BuildVars == <<wiring, debug, track>>

\* what no operation on a slice changes
LoopVars == <<pc, rx_result, tx_result, rxq, rxdropped, calls, timer>>

\* a ring set
SetVars == <<set_unfilled, set_filled, set_capacity, cursor, set_slice, set_cursor,
             set_hand, set_closed, targets, polled>>

\* an XDP ring
CursorVars == <<counters, producer, consumer, releasing, oracle>>

\* the ghosts of the msg drivers
DriverGhosts == <<retry, tick>>

\* what no operation on a pair changes
BeyondPair == <<closed, LoopVars, SetVars, CursorVars, rxtask>>

OutsideVars == <<BeyondPair, DriverGhosts>>

\* the two ends of a pair
Ends == {"unfilled", "filled"}

Alive(end) == end \notin closed

Panic(reason) ==
    /\ panicked' = reason
    /\ UNCHANGED <<unfilled, filled, ProducerVars, ConsumerVars, BuildVars, OutsideVars, last>>

\* Unfilled::try_slice: a slice of the unfilled queue and one of the filled queue
UnfilledTrySliceOk ==
    /\ Alive("unfilled") /\ Alive("filled")
    /\ RecvTrySlice(unfilled) /\ SendTrySlice(filled)

\* Filled::try_slice: a slice of the filled queue and one of the unfilled queue
FilledTrySliceOk ==
    /\ Alive("filled") /\ Alive("unfilled")
    /\ RecvTrySlice(filled) /\ SendTrySlice(unfilled)

(***************************************************************************)
(* Producer end, a tx::Queue user (Endpoint::transmit)                     *)
(***************************************************************************)
\* the user takes an UnfilledSlice
TxTrySlice ==
    /\ Running /\ wiring.producer = "push" /\ uslice = "none"
    /\ txwait \in {"none", "pending", "ready"}
    /\ UnfilledTrySliceOk
    /\ uslice' = "push"
    /\ ucap' = Cached(Len(unfilled))
    /\ txwait' = IF txwait = "ready" THEN "ready" ELSE "none"
    /\ last' = Op("try_slice", "Ok")
    /\ UNCHANGED <<unfilled, filled, ubuf, rxcount, nextSeq, atcap, ConsumerVars,
                   BuildVars, OutsideVars, panicked>>

\* tx::Queue::push(message) on the UnfilledSlice
Push(m) ==
    /\ Running /\ uslice = "push"
    /\ nextSeq <= MaxPushes
    /\ LET o == PushOutcome(m) IN
       /\ o.res # "not_a_writer"
       /\ o.entry # None =>
            /\ o.entry[1].segment_count <= MaxSegments
            /\ Len(o.entry[1].writes) <= MaxSegments
       /\ IF IsPanic(o.res)
          THEN Panic(o.res)
          ELSE /\ ubuf' = o.ubuf
               /\ unfilled' = o.unfilled
               /\ filled' = o.filled
               /\ nextSeq' = nextSeq + Counted(o.pushed)
               /\ ucap' = Cached(Len(o.unfilled))
               /\ txwait' = "none"
               /\ atcap' = ("tx_ready" \in track /\ o.res = "AtCapacity")
               /\ last' = Op("push", o.res)
               /\ UNCHANGED <<uslice, rxcount, ConsumerVars, BuildVars, OutsideVars,
                              panicked>>

\* Drop for UnfilledSlice: flush
DropSlice ==
    /\ Running /\ uslice = "push"
    /\ nextSeq <= MaxPushes
    /\ LET f == FlushBuffer(ubuf, filled, nextSeq) IN
       IF f.panic
       THEN Panic("panic_invariants")
       ELSE /\ ubuf' = f.buffer
            /\ filled' = f.queue
            /\ nextSeq' = nextSeq + Counted(f.pushed)
            /\ uslice' = "none"
            /\ txwait' = "none"
            /\ last' = Op("drop", IF f.pushed = 1 THEN "flushed" ELSE "kept")
            /\ UNCHANGED <<unfilled, rxcount, ucap, atcap, ConsumerVars, BuildVars,
                           OutsideVars, panicked>>

(***************************************************************************)
(* Consumer end, an rx::Queue user (Endpoint::receive)                     *)
(***************************************************************************)
\* the user takes a FilledSlice
RxTrySlice ==
    /\ Running /\ wiring.consumer = "queue" /\ fslice = "none"
    /\ FilledTrySliceOk
    /\ fslice' = "queue"
    /\ last' = Op("try_slice", "Ok")
    /\ UNCHANGED <<unfilled, filled, fbuf, hand, txcount, delivered, ProducerVars,
                   BuildVars, OutsideVars, panicked>>

\* rx::Queue::pop on the FilledSlice
Pop ==
    /\ Running /\ fslice = "queue" /\ hand = None
    /\ LET p == FilledSlicePop(fbuf, filled) IN
       /\ hand' = p.value
       /\ fbuf' = p.buffer
       /\ filled' = p.queue
       /\ delivered' = IF p.value = None THEN delivered ELSE p.value[1].seq
       /\ last' = Op("pop", IF p.value = None THEN "None" ELSE "Some")
    /\ UNCHANGED <<unfilled, fslice, txcount, ProducerVars, BuildVars, OutsideVars, panicked>>

\* rx::Entry::next_segment on the entry in hand
NextSegmentCall ==
    /\ Running /\ fslice = "queue" /\ hand # None
    /\ LET r == NextSegment(hand[1]) IN
       IF IsPanic(r.res)
       THEN Panic(r.res)
       ELSE /\ hand' = Some(r.entry)
            /\ last' = Op("next_segment", r.res)
            /\ UNCHANGED <<unfilled, filled, fbuf, fslice, txcount, delivered,
                           ProducerVars, BuildVars, OutsideVars, panicked>>

\* the user has read the entry in hand to its end
Exhausted(e) == e.segment_read_cursor = e.segment_write_cursor

\* rx::Queue::finish(entry) on the FilledSlice, which the user calls with an
\* entry it has read to its end
Finish ==
    /\ Running /\ fslice = "queue" /\ hand # None
    /\ Exhausted(hand[1])
    /\ IF InvariantsPanic(hand[1])
       THEN Panic("panic_invariants")
       ELSE /\ unfilled' = UnfilledSend(unfilled, FinishEntry(hand[1]))
            /\ hand' = None
            /\ last' = Op("finish", "Ok")
            /\ UNCHANGED <<filled, fbuf, fslice, txcount, delivered,
                           ProducerVars, BuildVars, OutsideVars, panicked>>

\* the user lets go of the FilledSlice
RxDropSlice ==
    /\ Running /\ fslice = "queue" /\ hand = None
    /\ fslice' = "none"
    /\ last' = Op("drop", "Ok")
    /\ UNCHANGED <<unfilled, filled, fbuf, hand, txcount, delivered, ProducerVars,
                   BuildVars, OutsideVars, panicked>>

(***************************************************************************)
(* socket/msg.rs, Rx::apply on an UnfilledSlice: a step is one iteration   *)
(* of its loop; after the return the caller drops the slice, which flushes *)
(***************************************************************************)
\* what recvmsg returns: an error kind, or Ok(len) without a remote address, or
\* Ok(len) with the remote address and the GRO segment size of the control message
RecvResultsOf(hs) ==
    [kind : {"Interrupted", "WouldBlock", "Other"}, len : {0}, addr : {FALSE},
     handle : {DefaultHandle}, gro : {0}]
    \cup
    [kind : {"Ok"}, len : {0}, addr : {FALSE}, handle : {DefaultHandle}, gro : {0}]
    \cup
    [kind : {"Ok"}, len : 0..MaxPayload, addr : {TRUE}, handle : hs, gro : {0, MaxGro}]

RecvResults == RecvResultsOf({1})

PlainRecvResults == RecvResultsOf({DefaultHandle})

\* Rx::apply, the entry after a receive of r.len bytes from r.handle, its data
\* of max_payload bytes
RxFillOf(e, r, max_payload) ==
    LET len == Min(r.len, max_payload) IN
    [e EXCEPT !.handle = r.handle,
              !.segment_read_cursor = 0,
              !.segment_write_cursor = U16(len),
              !.segment_size = IF r.gro = 0 THEN U16(len) ELSE U16(r.gro),
              !.segment_count = IF r.gro = 0 THEN 1
                                ELSE U16((len + r.gro - 1) \div r.gro)]

\* the same on an entry of pair(MaxPayload, Count)
RxFill(e, r) == RxFillOf(e, r, MaxPayload)

\* the end of an iteration of a driver on the UnfilledSlice: the loop goes on, or
\* apply returns and the slice is dropped
RxBack(next, b, q, c) ==
    LET out(x, bb, f, n, cc) ==
            [next |-> x, ubuf |-> bb, unfilled |-> q, filled |-> f, pushed |-> n,
             count |-> cc]
        fl == FlushBuffer(b, filled, nextSeq)
    IN
    IF next = "continue"
    THEN out(next, b, filled, 0, c)
    ELSE IF fl.panic
    THEN out("panic_invariants", ubuf, filled, 0, rxcount)
    ELSE out(next, fl.buffer, fl.queue, fl.pushed, c)

\* one iteration of the loop of Rx::apply
RxStepOutcome(r) ==
    LET p == UnfilledSlicePop(ubuf, unfilled)
        out(next, b, f, n, c) ==
            [next |-> next, ubuf |-> b, unfilled |-> p.queue, filled |-> f,
             pushed |-> n, count |-> c]
    IN
    IF p.value = None
    THEN RxBack("return_ok", p.buffer, p.queue, rxcount)
    ELSE
    LET entry == p.value[1] IN
    IF InvariantsPanic(entry)
    THEN out("panic_invariants", ubuf, filled, 0, rxcount)
    ELSE IF r.kind = "Ok"
    THEN IF ~r.addr
         THEN RxBack("continue", Some(entry), p.queue, rxcount)
         ELSE LET got == RxFill(entry, r) IN
              IF InvariantsPanic(got)
              THEN out("panic_invariants", ubuf, filled, 0, rxcount)
              ELSE out("continue", p.buffer, FilledSend(filled, got, nextSeq), 1,
                       rxcount + 1)
    ELSE IF rxcount = 0 /\ r.kind = "Interrupted"
    THEN RxBack("continue", Some(entry), p.queue, rxcount + 1)
    ELSE IF r.kind \in {"WouldBlock", "Interrupted"}
    THEN RxBack("return_err", Some(entry), p.queue, rxcount)
    ELSE RxBack("continue", Some(entry), p.queue, rxcount + 1)

\* io/tokio/socket.rs msg::rx: try_slice, then apply starts with count = 0
RxApplyStart ==
    /\ Running /\ wiring.producer = "msg_rx" /\ uslice = "none"
    /\ UnfilledTrySliceOk
    /\ uslice' = "msg_rx"
    /\ rxcount' = 0
    /\ ucap' = Cached(Len(unfilled))
    /\ retry' = NoRetry
    /\ last' = Op("rx_apply", "start")
    /\ UNCHANGED <<unfilled, filled, ubuf, nextSeq, txwait, atcap, ConsumerVars, BuildVars,
                   BeyondPair, tick, panicked>>

RxApplyStep(r) ==
    /\ Running /\ uslice = "msg_rx"
    /\ nextSeq <= MaxPushes
    /\ LET o == RxStepOutcome(r) IN
       /\ IF IsPanic(o.next)
          THEN Panic(o.next)
          ELSE /\ ubuf' = o.ubuf
               /\ unfilled' = o.unfilled
               /\ filled' = o.filled
               /\ nextSeq' = nextSeq + Counted(o.pushed)
               /\ rxcount' = Min(o.count, MaxApplyCount)
               /\ retry' = Retried(retry, UnfilledSlicePop(ubuf, unfilled).value # None,
                                   r.kind # "Ok", o.next = "continue" /\ o.ubuf # None)
               /\ tick' = Ticked(tick, UnfilledSlicePop(ubuf, unfilled).value # None)
               /\ uslice' = IF o.next = "continue" THEN "msg_rx" ELSE "none"
               /\ ucap' = Cached(Len(o.unfilled))
               /\ last' = Op("rx_step",
                             [next |-> o.next, result |-> r,
                              entry |-> UnfilledSlicePop(ubuf, unfilled).value,
                              len |-> Len(filled)])
               /\ UNCHANGED <<txwait, atcap, ConsumerVars, BuildVars, BeyondPair, panicked>>

(***************************************************************************)
(* io/tokio/socket.rs, msg::rx: the socket RX task on the Unfilled end of  *)
(* the RX pair, with S2N_RX_ITER at its default of 1                       *)
(***************************************************************************)
\* what only the socket RX task changes is rxtask
TaskFrame ==
    <<unfilled, filled, ProducerVars, ConsumerVars, BuildVars, closed, LoopVars, SetVars,
      CursorVars, DriverGhosts, panicked>>

\* Unfilled::ready: self.local.poll_slice(cx), the receiving half of the
\* unfilled queue, and nothing else
UnfilledReady == RecvPollSlice(unfilled, ~Alive("filled"))

\* Io::start spawns the task
RxTaskSpawn ==
    /\ Running /\ wiring.producer = "msg_rx" /\ rxtask = "off"
    /\ rxtask' = "ready"
    /\ last' = NoOp
    /\ UNCHANGED TaskFrame

\* while channel.ready().await.is_ok(): the future completes with Ok or with
\* Err, which ends the task, and is not scheduled while it is Pending
RxTaskReady ==
    /\ Running /\ rxtask = "ready"
    /\ UnfilledReady # "Pending"
    /\ rxtask' = IF UnfilledReady = "Ok" THEN "readable" ELSE "exited"
    /\ last' = NoOp
    /\ UNCHANGED TaskFrame

\* if let Ok(mut socket) = socket.readable().await
RxTaskReadable(ok) ==
    /\ Running /\ rxtask = "readable"
    /\ rxtask' = IF ok THEN "try_slice" ELSE "ready"
    /\ last' = NoOp
    /\ UNCHANGED TaskFrame

\* if let Ok(mut slice) = channel.try_slice(): apply starts on the slice, or
\* the body of the loop is over
RxTaskTrySlice ==
    /\ Running /\ rxtask = "try_slice" /\ uslice = "none"
    /\ IF UnfilledTrySliceOk
       THEN /\ rxtask' = "apply"
            /\ uslice' = "msg_rx"
            /\ rxcount' = 0
            /\ ucap' = Cached(Len(unfilled))
            /\ retry' = NoRetry
            /\ last' = Op("rx_apply", "start")
            /\ UNCHANGED <<unfilled, filled, ubuf, nextSeq, txwait, atcap, ConsumerVars,
                           BuildVars, closed, LoopVars, SetVars, CursorVars, tick, panicked>>
       ELSE /\ rxtask' = "ready"
            /\ last' = NoOp
            /\ UNCHANGED TaskFrame

\* apply has returned and the slice was dropped: the next iteration of the loop
RxTaskNext ==
    /\ Running /\ rxtask = "apply" /\ uslice = "none"
    /\ rxtask' = "ready"
    /\ last' = NoOp
    /\ UNCHANGED TaskFrame

(***************************************************************************)
(* socket/msg.rs, Tx::apply on a FilledSlice: a step is one iteration      *)
(***************************************************************************)
\* what sendmsg returns: Ok, or an error kind
SendResults == {"Ok", "Interrupted", "WouldBlock", "Other"}

\* one iteration of the loop of Tx::apply
TxStepOutcome(r) ==
    LET p == FilledSlicePop(fbuf, filled)
        out(next, b, u, c, d) ==
            [next |-> next, fbuf |-> b, filled |-> p.queue, unfilled |-> u,
             count |-> c, delivered |-> d]
    IN
    IF p.value = None
    THEN out("return_ok", p.buffer, unfilled, txcount, delivered)
    ELSE
    LET entry == p.value[1] IN
    IF InvariantsPanic(entry)
    THEN out("panic_invariants", fbuf, unfilled, txcount, delivered)
    ELSE IF r = "Ok"
    THEN out("continue", p.buffer, UnfilledSend(unfilled, Reset(entry)), txcount,
             entry.seq)
    ELSE IF txcount = 0 /\ r = "Interrupted"
    THEN out("continue", Some(entry), unfilled, txcount + 1, entry.seq)
    ELSE IF r \in {"WouldBlock", "Interrupted"}
    THEN out("return_err", Some(entry), unfilled, txcount, entry.seq)
    ELSE out("continue", p.buffer, UnfilledSend(unfilled, Reset(entry)), txcount + 1,
             entry.seq)

\* io/tokio/socket.rs msg::tx: try_slice, then apply starts with count = 0
TxApplyStart ==
    /\ Running /\ wiring.consumer = "msg_tx" /\ fslice = "none"
    /\ FilledTrySliceOk
    /\ fslice' = "msg_tx"
    /\ txcount' = 0
    /\ retry' = NoRetry
    /\ last' = Op("tx_apply", "start")
    /\ UNCHANGED <<unfilled, filled, fbuf, hand, delivered, ProducerVars, BuildVars, BeyondPair,
                   tick, panicked>>

TxApplyStep(r) ==
    /\ Running /\ fslice = "msg_tx"
    /\ LET o == TxStepOutcome(r) IN
       /\ IF IsPanic(o.next)
          THEN Panic(o.next)
          ELSE /\ fbuf' = o.fbuf
               /\ filled' = o.filled
               /\ unfilled' = o.unfilled
               /\ txcount' = Min(o.count, MaxApplyCount)
               /\ retry' = Retried(retry, FilledSlicePop(fbuf, filled).value # None,
                                   r # "Ok", o.next = "continue" /\ o.fbuf # None)
               /\ tick' = Ticked(tick, FilledSlicePop(fbuf, filled).value # None)
               /\ delivered' = o.delivered
               /\ fslice' = IF o.next = "continue" THEN "msg_tx" ELSE "none"
               /\ last' = Op("tx_step",
                             [next |-> o.next, result |-> r,
                              entry |-> FilledSlicePop(fbuf, filled).value,
                              len |-> Len(unfilled)])
               /\ UNCHANGED <<hand, ProducerVars, BuildVars, BeyondPair, panicked>>

(***************************************************************************)
(* socket/std.rs, Rx::apply on an UnfilledSlice: a step is one iteration   *)
(***************************************************************************)
\* what recv_from returns: Err, or Ok((len, None)), or Ok((len, Some(address)))
StdRecvResultsOf(hs) ==
    [kind : {"Err"}, len : {0}, addr : {FALSE}, handle : {DefaultHandle}]
    \cup
    [kind : {"Ok"}, len : 0..Min(1, MaxPayload), addr : {FALSE}, handle : {DefaultHandle}]
    \cup
    [kind : {"Ok"}, len : 0..MaxPayload, addr : {TRUE}, handle : hs]

StdRecvResults == StdRecvResultsOf({1})

PlainStdRecvResults == StdRecvResultsOf({DefaultHandle})

\* Rx::apply, the entry after a receive of r.len bytes from r.handle
StdRxFill(e, r) ==
    [e EXCEPT !.handle = r.handle,
              !.segment_count = 1,
              !.segment_size = U16(r.len),
              !.segment_write_cursor = U16(r.len),
              !.segment_read_cursor = 0]

\* one iteration of the loop of Rx::apply
StdRxStepOutcome(r) ==
    LET p == UnfilledSlicePop(ubuf, unfilled) IN
    IF p.value = None
    THEN RxBack("return_ok", p.buffer, p.queue, rxcount)
    ELSE
    LET entry == p.value[1] IN
    IF r.kind = "Err"
    THEN RxBack("return_err", Some(entry), p.queue, rxcount)
    ELSE IF r.len = 0
    THEN RxBack("return_ok", Some(entry), p.queue, rxcount)
    ELSE IF r.addr
    THEN [next |-> "continue", ubuf |-> p.buffer, unfilled |-> p.queue,
          filled |-> FilledSend(filled, StdRxFill(entry, r), nextSeq), pushed |-> 1,
          count |-> rxcount]
    ELSE RxBack("continue", Some(entry), p.queue, rxcount)

\* io/tokio/socket.rs stdlib::rx: try_slice, then apply
StdRxApplyStart ==
    /\ Running /\ wiring.producer = "std_rx" /\ uslice = "none"
    /\ UnfilledTrySliceOk
    /\ uslice' = "std_rx"
    /\ ucap' = Cached(Len(unfilled))
    /\ last' = Op("std_rx_apply", "start")
    /\ UNCHANGED <<unfilled, filled, ubuf, rxcount, nextSeq, txwait, atcap, ConsumerVars,
                   BuildVars, OutsideVars, panicked>>

StdRxApplyStep(r) ==
    /\ Running /\ uslice = "std_rx"
    /\ nextSeq <= MaxPushes
    /\ LET o == StdRxStepOutcome(r) IN
       IF IsPanic(o.next)
       THEN Panic(o.next)
       ELSE /\ ubuf' = o.ubuf
            /\ unfilled' = o.unfilled
            /\ filled' = o.filled
            /\ nextSeq' = nextSeq + Counted(o.pushed)
            /\ uslice' = IF o.next = "continue" THEN "std_rx" ELSE "none"
            /\ ucap' = Cached(Len(o.unfilled))
            /\ last' = Op("std_rx_step",
                          [next |-> o.next, result |-> r,
                           entry |-> UnfilledSlicePop(ubuf, unfilled).value,
                           len |-> Len(filled)])
            /\ UNCHANGED <<rxcount, txwait, atcap, ConsumerVars, BuildVars, OutsideVars,
                           panicked>>

(***************************************************************************)
(* socket/std.rs, Tx::apply on a FilledSlice: a step is one entry          *)
(***************************************************************************)
\* the sends of one entry: all of its segments are sent, or the send of the
\* segment of index k (from 0) fails
AllSent == -1

StdSendResults == {AllSent} \cup (0..(MaxSegments - 1))

\* Buffer::segments: the number of chunks of data[read..write] of segment_size bytes
SegmentsLen(e) ==
    (e.segment_write_cursor - e.segment_read_cursor + e.segment_size - 1)
        \div e.segment_size

\* the segments that send_to returned Ok for in one iteration of the outer
\* loop: the first k chunks of data[read..write], or all of them
StdSent(e, k) ==
    [j \in 1..(IF k = AllSent THEN SegmentsLen(e) ELSE k) |->
        <<e.segment_read_cursor + (j - 1) * e.segment_size,
          Min(e.segment_read_cursor + j * e.segment_size, e.segment_write_cursor)>>]

\* ghost: the segments of the entry sent so far
Sent(e, k) ==
    IF "sends" \in track THEN [e EXCEPT !.reads = e.reads \o StdSent(e, k)] ELSE e

\* Tx::apply, `count` when the send of the segment of index k fails: the sum of
\* segment.len() over the segments sent in this call
StdTxCountNone(e, k) == 0

StdTxCount(e, k) == k * e.segment_size

\* one iteration of the outer loop of Tx::apply
StdTxStepOutcome(k) ==
    LET p == FilledSlicePop(fbuf, filled)
        out(next, b, u, d) ==
            [next |-> next, fbuf |-> b, filled |-> p.queue, unfilled |-> u,
             delivered |-> d]
    IN
    IF p.value = None
    THEN out("return_ok", p.buffer, unfilled, delivered)
    ELSE
    LET entry == p.value[1]
        count == StdTxCount(entry, k)
    IN
    IF InvariantsPanic(entry)
    THEN out("panic_invariants", fbuf, unfilled, delivered)
    ELSE IF debug /\ ~(entry.segment_read_cursor < entry.segment_write_cursor)
    THEN out("panic_assert", fbuf, unfilled, delivered)
    ELSE IF \/ entry.segment_read_cursor > entry.segment_write_cursor
            \/ entry.segment_write_cursor > MaxPayload
    THEN out("panic_index", fbuf, unfilled, delivered)
    ELSE IF entry.segment_size = 0
    THEN out("panic_chunks", fbuf, unfilled, delivered)
    ELSE IF k >= SegmentsLen(entry)
    THEN out("not_a_result", fbuf, unfilled, delivered)
    ELSE IF k = AllSent
    THEN out("continue", p.buffer, UnfilledSend(unfilled, Reset(entry)), entry.seq)
    ELSE out("return_err",
             Some([Sent(entry, k) EXCEPT !.segment_read_cursor =
                                            U16(entry.segment_read_cursor + count)]),
             unfilled, entry.seq)

\* io/tokio/socket.rs stdlib::tx: try_slice, then apply
StdTxApplyStart ==
    /\ Running /\ wiring.consumer = "std_tx" /\ fslice = "none"
    /\ FilledTrySliceOk
    /\ fslice' = "std_tx"
    /\ last' = Op("std_tx_apply", "start")
    /\ UNCHANGED <<unfilled, filled, fbuf, hand, txcount, delivered, ProducerVars,
                   BuildVars, OutsideVars, panicked>>

StdTxApplyStep(k) ==
    /\ Running /\ fslice = "std_tx"
    /\ LET o == StdTxStepOutcome(k) IN
       /\ o.next # "not_a_result"
       /\ IF IsPanic(o.next)
          THEN Panic(o.next)
          ELSE /\ fbuf' = o.fbuf
               /\ filled' = o.filled
               /\ unfilled' = o.unfilled
               /\ delivered' = o.delivered
               /\ fslice' = IF o.next = "continue" THEN "std_tx" ELSE "none"
               /\ last' = Op("std_tx_step",
                             [next |-> o.next, result |-> k,
                              entry |-> FilledSlicePop(fbuf, filled).value,
                              len |-> Len(unfilled)])
               /\ UNCHANGED <<hand, txcount, ProducerVars, BuildVars, OutsideVars, panicked>>

(***************************************************************************)
(* Readiness and closure of a pair (channel.rs over the spsc queue)        *)
(***************************************************************************)
\* Unfilled::poll_slice: the receiving half of the unfilled queue, then the
\* sending half of the filled queue, each through ready! and ?
UnfilledPollSliceLocalOnly == RecvPollSlice(unfilled, ~Alive("filled"))

UnfilledPollSlice ==
    LET local == RecvPollSlice(unfilled, ~Alive("filled")) IN
    IF local # "Ok" THEN local ELSE SendPollSlice(filled, ~Alive("filled"))

\* Filled::poll_slice: the receiving half of the filled queue, then the sending
\* half of the unfilled queue
FilledPollSlice ==
    LET local == RecvPollSlice(filled, ~Alive("unfilled")) IN
    IF local # "Ok" THEN local ELSE SendPollSlice(unfilled, ~Alive("unfilled"))

\* one poll of the future of Unfilled::tx_ready that polls whatever capacity() is
TxReadyAlwaysPolls == RecvPollSlice(unfilled, ~Alive("filled"))

\* one poll of the future of Unfilled::tx_ready
TxReady ==
    IF ucap = 0 THEN RecvPollSlice(unfilled, ~Alive("filled")) ELSE "Pending"

\* the waker that a pending poll_slice of the unfilled queue left is woken by a
\* push to the queue, which was empty, and by the drop of the Filled end
TxWoken == txwait = "parked" /\ (unfilled # <<>> \/ ~Alive("filled"))

\* the tx::Queue user awaits tx_ready(): the first poll of the future, or the
\* poll after its waker was woken.  The future is then done ("none" after Err,
\* "ready" after Ok until the user pushes), or pending with its waker left in
\* the unfilled queue ("parked"), or pending with no waker left ("pending")
TxReadyPoll ==
    /\ Running /\ wiring.producer = "push" /\ uslice = "none"
    /\ Alive("unfilled")
    /\ txwait = "none" \/ TxWoken
    /\ LET r == TxReady IN
       /\ txwait' = CASE r = "Ok" -> "ready"
                      [] r = "Err" -> "none"
                      [] OTHER -> IF ucap = 0 THEN "parked" ELSE "pending"
       /\ ucap' = IF ucap = 0 THEN Cached(Len(unfilled)) ELSE ucap
       /\ last' = Op("tx_ready", r)
    /\ UNCHANGED <<unfilled, filled, ubuf, uslice, rxcount, nextSeq, atcap,
                   ConsumerVars, BuildVars, OutsideVars, panicked>>

\* the tx::Queue user polls Unfilled::poll_slice, and holds the slice if it is given one
TxPollSlice ==
    /\ Running /\ wiring.producer = "push" /\ uslice = "none"
    /\ Alive("unfilled")
    /\ txwait = "none"
    /\ LET r == UnfilledPollSlice IN
       /\ uslice' = IF r = "Ok" THEN "push" ELSE "none"
       /\ last' = Op("poll_slice", [end |-> "unfilled", res |-> r])
    /\ ucap' = Cached(Len(unfilled))
    /\ UNCHANGED <<unfilled, filled, ubuf, rxcount, nextSeq, txwait, atcap, ConsumerVars,
                   BuildVars, OutsideVars, panicked>>

\* the rx::Queue user polls Filled::poll_slice, and holds the slice if it is given one
RxPollSlice ==
    /\ Running /\ wiring.consumer = "queue" /\ fslice = "none"
    /\ Alive("filled")
    /\ LET r == FilledPollSlice IN
       /\ fslice' = IF r = "Ok" THEN "queue" ELSE "none"
       /\ last' = Op("poll_slice", [end |-> "filled", res |-> r])
    /\ UNCHANGED <<unfilled, filled, fbuf, hand, txcount, delivered, ProducerVars,
                   BuildVars, OutsideVars, panicked>>

\* the task that owns the Unfilled end returns or is aborted: the end is dropped,
\* and its two halves of the queues with it
DropUnfilled ==
    /\ Running /\ Alive("unfilled") /\ uslice = "none"
    /\ closed' = closed \cup {"unfilled"}
    /\ txwait' = "none"
    /\ last' = Op("drop_end", "unfilled")
    /\ UNCHANGED <<unfilled, filled, ubuf, uslice, rxcount, nextSeq, ucap, atcap,
                   ConsumerVars, BuildVars, SetVars, CursorVars, rxtask, DriverGhosts, LoopVars, panicked>>

\* the task that owns the Filled end returns or is aborted
DropFilled ==
    /\ Running /\ Alive("filled") /\ fslice = "none" /\ hand = None
    /\ closed' = closed \cup {"filled"}
    /\ last' = Op("drop_end", "filled")
    /\ UNCHANGED <<unfilled, filled, ProducerVars, ConsumerVars, BuildVars, SetVars, CursorVars, rxtask, DriverGhosts, LoopVars,
                   panicked>>

(***************************************************************************)
(* EventLoop::start (event_loop.rs) on the Unfilled end of the TX pair,    *)
(* which is the pair of the model, and on the Filled end of the RX pair,   *)
(* of which the loop reads what Filled::ready and Filled::try_slice return *)
(***************************************************************************)
\* the stages of one iteration of the loop that runs the transmit stage first
LoopStagesTransmitFirst == <<"select", "transmit", "receive", "timeout">>

\* the stages of one iteration of the loop, in the order of event_loop.rs
LoopStages == <<"select", "receive", "transmit", "timeout">>

\* the stage after stage p, the first one after the last
StageAfter(p) ==
    LET i == CHOOSE j \in 1..Len(LoopStages) : LoopStages[j] = p IN
    LoopStages[(i % Len(LoopStages)) + 1]

\* Filled::ready of the RX pair: one poll of the future
RxReady == RecvPollSlice(rxq, rxdropped)

\* Filled::try_slice of the RX pair
RxPairTrySliceOk == RecvTrySlice(rxq) /\ ~rxdropped

\* Option<Result<(), Error>> of a future polled once
PollResult(r) == IF r = "Pending" THEN "None" ELSE r

\* Select::new(rx_task, tx_task, wakeups, timer).await: the task runs when one of
\* the four futures is ready (wake: the wakeups or the timer are), every future
\* is polled, and the loop returns when both rx_task and tx_task report Closed
LoopSelect(wake) ==
    /\ Running /\ pc = "select"
    /\ RxReady # "Pending" \/ TxReady # "Pending" \/ wake
    /\ IF RxReady = "Err" /\ TxReady = "Err"
       THEN /\ pc' = "returned"
            /\ closed' = closed \cup {"unfilled"}
            /\ UNCHANGED <<rx_result, tx_result>>
       ELSE /\ pc' = StageAfter("select")
            /\ rx_result' = PollResult(RxReady)
            /\ tx_result' = PollResult(TxReady)
            /\ UNCHANGED closed
    /\ ucap' = IF ucap = 0 THEN Cached(Len(unfilled)) ELSE ucap
    /\ calls' = <<>>
    /\ last' = Op("select", "Ok")
    /\ UNCHANGED <<unfilled, filled, ubuf, uslice, rxcount, nextSeq, txwait, atcap,
                   ConsumerVars, BuildVars, SetVars, CursorVars, rxtask, DriverGhosts, rxq, rxdropped, timer, panicked>>

\* a loop that tries to transmit only when tx_task reported Ok
TransmitWantedWhenReady == tx_result = "Ok"

\* `let _ = tx_result`: the loop tries to transmit whatever tx_result is
TransmitWanted == TRUE

\* if let Some(Ok(())) = rx_result, and rx.try_slice() is Ok: endpoint.receive,
\* which drains the filled queue of the RX pair and returns every entry
LoopReceive ==
    /\ Running /\ pc = "receive"
    /\ IF rx_result = "Ok" /\ RxPairTrySliceOk
       THEN /\ rxq' = <<>>
            /\ calls' = Append(calls, "receive")
       ELSE UNCHANGED <<rxq, calls>>
    /\ pc' = StageAfter("receive")
    /\ last' = Op("receive", "Ok")
    /\ UNCHANGED <<unfilled, filled, ProducerVars, ConsumerVars, BuildVars, SetVars, CursorVars, rxtask, DriverGhosts, closed,
                   rx_result, tx_result, rxdropped, timer, panicked>>

\* whatever tx_result is, if tx.try_slice() is Ok: endpoint.transmit is called with
\* the slice, on which it pushes (Push) until it returns and the slice is dropped
\* (DropSlice)
LoopTransmit ==
    /\ Running /\ pc = "transmit" /\ uslice = "none"
    /\ IF TransmitWanted /\ UnfilledTrySliceOk
       THEN /\ uslice' = "push"
            /\ pc' = "transmitting"
            /\ calls' = Append(calls, "transmit")
       ELSE /\ pc' = StageAfter("transmit")
            /\ UNCHANGED <<uslice, calls>>
    /\ ucap' = Cached(Len(unfilled))
    /\ last' = Op("transmit", "Ok")
    /\ UNCHANGED <<unfilled, filled, ubuf, rxcount, nextSeq, txwait, atcap, ConsumerVars,
                   BuildVars, SetVars, CursorVars, rxtask, DriverGhosts, closed, rx_result, tx_result, rxq, rxdropped, timer, panicked>>

\* endpoint.transmit has returned and the slice is dropped
LoopTransmitReturn ==
    /\ Running /\ pc = "transmitting" /\ uslice = "none"
    /\ pc' = StageAfter("transmit")
    /\ last' = Op("transmit", "return")
    /\ UNCHANGED <<unfilled, filled, ProducerVars, ConsumerVars, BuildVars, SetVars, CursorVars, rxtask, DriverGhosts, closed,
                   rx_result, tx_result, rxq, rxdropped, calls, timer, panicked>>

\* a loop that clears the deadline when endpoint.timeout() is None
TimerAfterCleared(t, timeout) == timeout

\* if let Some(timeout) = timeout { timer.update(timeout) }
TimerAfter(t, timeout) == IF timeout = None THEN t ELSE timeout

\* endpoint.timeout() returning timeout, timer.update(..) and the sleep event
LoopTimeout(timeout) ==
    /\ Running /\ pc = "timeout"
    /\ pc' = StageAfter("timeout")
    /\ timer' = TimerAfter(timer, timeout)
    /\ calls' = IF timeout = None THEN calls ELSE Append(calls, "update")
    /\ last' = Op("timeout", timeout)
    /\ UNCHANGED <<unfilled, filled, ProducerVars, ConsumerVars, BuildVars, SetVars, CursorVars, rxtask, DriverGhosts, closed,
                   rx_result, tx_result, rxq, rxdropped, panicked>>

\* the socket RX task pushes a datagram to the filled queue of the RX pair
RxTaskFill ==
    /\ Running /\ pc \notin {"off", "returned"} /\ ~rxdropped
    /\ Len(rxq) < Count
    /\ rxq' = Append(rxq, [NewEntry EXCEPT !.segment_count = 1])
    /\ last' = Op("rx_task", "fill")
    /\ UNCHANGED <<unfilled, filled, ProducerVars, ConsumerVars, BuildVars, SetVars, CursorVars, rxtask, DriverGhosts, closed,
                   pc, rx_result, tx_result, rxdropped, calls, timer, panicked>>

\* the socket RX task returns or is aborted: its Unfilled end is dropped
RxTaskDrop ==
    /\ Running /\ pc \notin {"off", "returned"} /\ ~rxdropped
    /\ rxdropped' = TRUE
    /\ last' = Op("rx_task", "drop")
    /\ UNCHANGED <<unfilled, filled, ProducerVars, ConsumerVars, BuildVars, SetVars, CursorVars, rxtask, DriverGhosts, closed,
                   pc, rx_result, tx_result, rxq, calls, timer, panicked>>

(***************************************************************************)
(* Ring set (channel.rs): set(max_payload, count, len) makes len pairs;    *)
(* the producer holds the UnfilledSet, the consumer the FilledSet          *)
(***************************************************************************)
\* pair_inner: the id and the queue of an entry; the set reads nothing else of it
SetEntry(id, queue) == [id |-> id, queue |-> queue]

\* pair_inner(max_payload, count, queue): the unfilled queue of pair `queue`
SetPairInner(queue) == [i \in 1..Count |-> SetEntry(i - 1, queue)]

\* set(max_payload, count, len)
SetOf(len) ==
    /\ set_unfilled = [k \in 0..(len - 1) |-> SetPairInner(k)]
    /\ set_filled = [k \in 0..(len - 1) |-> <<>>]
    /\ set_capacity = [k \in 0..(len - 1) |-> 0]
    /\ cursor = 0
    /\ set_slice = None
    /\ set_cursor = None
    /\ set_hand = {}
    /\ set_closed = {}
    /\ targets = <<>>
    /\ polled = FALSE

\* the indices of inner, and inner.len()
SetPairs == DOMAIN set_unfilled

SetN == Cardinality(SetPairs)

\* what no operation on a set changes
PairVars ==
    <<unfilled, filled, ProducerVars, ConsumerVars, BuildVars, closed, LoopVars, CursorVars,
      rxtask, DriverGhosts, panicked>>

\* inner[k].try_slice() of the UnfilledSet
SetPairTrySliceOk(k) ==
    /\ "filled" \notin set_closed
    /\ RecvTrySlice(set_unfilled[k])
    /\ SendTrySlice(set_filled[k])

\* UnfilledSet::try_slice: a cursor that never moves
NextCursorStays(c) == c

\* UnfilledSet::try_slice: the cursor after a call that found it at c
NextCursor(c) == IF c + 1 >= SetN THEN 0 ELSE c + 1

\* UnfilledSet::try_slice: the slice of inner[cursor], if it gives one
SetTrySlice ==
    /\ Running /\ wiring.producer = "set" /\ "unfilled" \notin set_closed
    /\ set_slice = None
    /\ Len(targets) < MaxSetCalls
    /\ cursor' = NextCursor(cursor)
    /\ set_slice' = IF SetPairTrySliceOk(cursor) THEN Some(cursor) ELSE None
    /\ set_capacity' = [set_capacity EXCEPT ![cursor] = Cached(Len(set_unfilled[cursor]))]
    /\ targets' = IF polled \/ "targets" \notin track THEN targets
                  ELSE Append(targets, [pair |-> cursor, ok |-> SetPairTrySliceOk(cursor)])
    /\ last' = NoOp
    /\ UNCHANGED <<set_unfilled, set_filled, set_cursor, set_hand, set_closed, polled,
                   PairVars>>

\* the producer pushes a message that fills an entry: the push of the
\* UnfilledSlice pops the entry and sends it to the filled queue of its pair
SetPush ==
    /\ Running /\ set_slice # None
    /\ nextSeq <= MaxPushes
    /\ nextSeq' = nextSeq + Counted(1)
    /\ LET k == set_slice[1] IN
       /\ set_unfilled[k] # <<>>
       /\ set_unfilled' = [set_unfilled EXCEPT ![k] = Tail(@)]
       /\ set_filled' = [set_filled EXCEPT ![k] = SpscPush(@, Head(set_unfilled[k]))]
       /\ set_capacity' = [set_capacity EXCEPT ![k] = Cached(Len(set_unfilled[k]) - 1)]
       /\ last' = NoOp
    /\ UNCHANGED <<cursor, set_slice, set_cursor, set_hand, set_closed, targets, polled,
                   unfilled, filled, ubuf, uslice, rxcount, ucap, txwait, atcap,
                   ConsumerVars, BuildVars, closed, LoopVars, CursorVars, rxtask,
                   DriverGhosts, panicked>>

\* the producer drops its UnfilledSlice
SetDropSlice ==
    /\ Running /\ set_slice # None
    /\ set_slice' = None
    /\ last' = NoOp
    /\ UNCHANGED <<set_unfilled, set_filled, set_capacity, cursor, set_cursor, set_hand,
                   set_closed, targets, polled, PairVars>>

\* UnfilledSet::tx_ready: the pair at position i of front.iter_mut().chain(back)
Walk(i) == (cursor + i) % SetN

\* queue.local.poll_slice(cx) of a pair of the UnfilledSet
SetPollSlice(p) == RecvPollSlice(set_unfilled[p], "filled" \in set_closed)

\* UnfilledSet::tx_ready: the loop breaks at position i
WalkBreaks(i) == set_capacity[Walk(i)] > 0 \/ SetPollSlice(Walk(i)) = "Ok"

\* UnfilledSet::tx_ready: the position the loop breaks at, inner.len() if it does not
WalkEnd ==
    CHOOSE i \in 0..SetN :
        /\ i = SetN \/ WalkBreaks(i)
        /\ \A j \in 0..(i - 1) : ~WalkBreaks(j)

\* UnfilledSet::tx_ready: is_ready is set by a poll_slice that is Ready(Ok) only
SetTxReady ==
    IF WalkEnd < SetN /\ set_capacity[Walk(WalkEnd)] = 0 THEN "Ok" ELSE "Pending"

\* one poll of the future of UnfilledSet::tx_ready: a break leaves the
\* position in the cursor; each pair that was polled has seen its queue
SetTxReadyPoll ==
    /\ Running /\ wiring.producer = "set" /\ "unfilled" \notin set_closed
    /\ set_slice = None
    /\ cursor' = IF WalkEnd < SetN THEN WalkEnd ELSE cursor
    /\ set_capacity' =
           [p \in SetPairs |->
               IF set_capacity[p] = 0 /\ (\E i \in 0..Min(WalkEnd, SetN - 1) : Walk(i) = p)
               THEN Cached(Len(set_unfilled[p]))
               ELSE set_capacity[p]]
    /\ polled' = TRUE
    /\ targets' = <<>>
    /\ last' = Op("set_tx_ready",
                  [result |-> SetTxReady, from |-> cursor,
                   pair |-> IF WalkEnd < SetN THEN Some(Walk(WalkEnd)) ELSE None])
    /\ UNCHANGED <<set_unfilled, set_filled, set_slice, set_cursor, set_hand, set_closed,
                   PairVars>>

\* FilledSet::try_slice: a slice of the whole set, its cursor on pair 0
FilledSetTrySlice ==
    /\ Running /\ wiring.consumer = "set" /\ "filled" \notin set_closed
    /\ set_cursor = None
    /\ set_cursor' = Some(0)
    /\ last' = NoOp
    /\ UNCHANGED <<set_unfilled, set_filled, set_capacity, cursor, set_slice, set_hand,
                   set_closed, targets, polled, PairVars>>

\* FilledSet::poll_slice: filled.local.poll_slice(cx) of a pair of the FilledSet
FilledSetPollReady(p) ==
    RecvPollSlice(set_filled[p], "unfilled" \in set_closed) = "Ok"

\* FilledSet::poll_slice: a slice whose cursor is on the first pair that is
\* ready, Pending when none is
FilledSetPollSlice ==
    /\ Running /\ wiring.consumer = "set" /\ "filled" \notin set_closed
    /\ set_cursor = None
    /\ \E p \in SetPairs :
           /\ FilledSetPollReady(p)
           /\ \A q \in SetPairs : q < p => ~FilledSetPollReady(q)
           /\ set_cursor' = Some(p)
    /\ last' = Op("set_poll", {q \in SetPairs : FilledSetPollReady(q)})
    /\ UNCHANGED <<set_unfilled, set_filled, set_capacity, cursor, set_slice, set_hand,
                   set_closed, targets, polled, PairVars>>

\* FilledSetSlice::pop with a cursor that is not moved over a pair that has
\* nothing
PopCursorStays(c) == IF c < SetN /\ set_filled[c] # <<>> THEN c ELSE SetN

\* FilledSetSlice::pop: the first pair at or after the cursor whose pop gives an
\* entry, inner.len() when there is none
PopCursor(c) ==
    CHOOSE k \in c..SetN :
        /\ k = SetN \/ set_filled[k] # <<>>
        /\ \A j \in c..(k - 1) : set_filled[j] = <<>>

\* FilledSetSlice::pop: the cursor moves over the pairs that have nothing, and
\* the consumer takes the entry, if there is one
SetPop ==
    /\ Running /\ set_cursor # None
    /\ LET k == PopCursor(Min(set_cursor[1], SetN)) IN
       /\ set_cursor' = Some(k)
       /\ IF k < SetN
          THEN /\ set_filled' = [set_filled EXCEPT ![k] = Tail(@)]
               /\ set_hand' = set_hand \cup {Head(set_filled[k])}
          ELSE /\ UNCHANGED <<set_filled, set_hand>>
       /\ last' = Op("set_pop",
                     [from |-> set_cursor[1],
                      entry |-> IF k < SetN THEN Some(Head(set_filled[k])) ELSE None,
                      empty |-> {j \in SetPairs : set_filled[j] = <<>>}])
    /\ UNCHANGED <<set_unfilled, set_capacity, cursor, set_slice, set_closed, targets,
                   polled, PairVars>>

\* FilledSetSlice::finish: the pair whose cursor the slice is on
FinishIndexOfCursor(entry) == Min(set_cursor[1], SetN - 1)

\* FilledSetSlice::finish: index
FinishIndex(entry) == entry.queue

\* FilledSetSlice::finish: the entry is pushed to the unfilled queue of
\* inner[index] if inner.remote.try_slice() gives a slice, and dropped if not
SetFinish(entry) ==
    /\ Running /\ set_cursor # None
    /\ entry \in set_hand
    /\ set_hand' = set_hand \ {entry}
    /\ LET index == FinishIndex(entry) IN
       /\ set_unfilled' =
              IF "unfilled" \notin set_closed /\ SendTrySlice(set_unfilled[index])
              THEN [set_unfilled EXCEPT ![index] = SpscPush(@, entry)]
              ELSE set_unfilled
       /\ last' = Op("set_finish", [entry |-> entry, index |-> index,
                                    cursor |-> set_cursor[1]])
    /\ UNCHANGED <<set_filled, set_capacity, cursor, set_slice, set_cursor, set_closed,
                   targets, polled, PairVars>>

\* the consumer drops its FilledSetSlice
SetDropFilledSlice ==
    /\ Running /\ set_cursor # None
    /\ set_cursor' = None
    /\ last' = NoOp
    /\ UNCHANGED <<set_unfilled, set_filled, set_capacity, cursor, set_slice, set_hand,
                   set_closed, targets, polled, PairVars>>

\* the producer drops the UnfilledSet
DropUnfilledSet ==
    /\ Running /\ wiring.producer = "set" /\ "unfilled" \notin set_closed
    /\ set_slice = None
    /\ set_closed' = set_closed \cup {"unfilled"}
    /\ last' = NoOp
    /\ UNCHANGED <<set_unfilled, set_filled, set_capacity, cursor, set_slice, set_cursor,
                   set_hand, targets, polled, PairVars>>

\* the consumer drops the FilledSet
DropFilledSet ==
    /\ Running /\ wiring.consumer = "set" /\ "filled" \notin set_closed
    /\ set_cursor = None
    /\ set_closed' = set_closed \cup {"filled"}
    /\ last' = NoOp
    /\ UNCHANGED <<set_unfilled, set_filled, set_capacity, cursor, set_slice, set_cursor,
                   set_hand, targets, polled, PairVars>>

(***************************************************************************)
(* Cursors of an XDP ring (ring.rs): a producer and a consumer, each with  *)
(* its own Cursors, share the two atomic counters of the ring.  The        *)
(* counters and the cached values are Wrapping<u32>; they are modelled     *)
(* with CursorBits bits, so that they wrap within a run.  Each action is   *)
(* one access of an atomic counter together with the steps on the side's   *)
(* own Cursors around it.                                                  *)
(***************************************************************************)
\* Wrapping<u32>
U32(x) == x % (2 ^ CursorBits)

\* cursor_test: the two counters at zero, the two Cursors with nothing cached,
\* and the Oracle with every entry free
CursorsOf(size) ==
    /\ counters = [producer |-> 0, consumer |-> 0, size |-> size]
    /\ producer = [cached_producer |-> 0, cached_consumer |-> 0]
    /\ consumer = [cached_producer |-> 0, cached_consumer |-> 0]
    /\ releasing = [producer |-> None, consumer |-> None]
    /\ oracle = [producer |-> size, consumer |-> 0]

\* Cursors::cached_producer with a subtraction that does not wrap
CachedProducerNoWrap(c) == c.cached_consumer - c.cached_producer

\* Cursors::cached_producer
CachedProducer(c) == U32(c.cached_consumer - c.cached_producer)

\* Cursors::acquire_producer that counts the size of the ring twice
AcquireProducerTwiceSize(c, watermark) ==
    IF CachedProducer(c) >= watermark
    THEN c
    ELSE [c EXCEPT !.cached_consumer = U32(counters.consumer + 2 * counters.size)]

\* Cursors::acquire_producer: the Cursors after the call; it returns their
\* cached_producer()
AcquireProducer(c, watermark) ==
    IF CachedProducer(c) >= watermark
    THEN c
    ELSE [c EXCEPT !.cached_consumer = U32(counters.consumer + counters.size)]

\* Cursors::cached_consumer
CachedConsumer(c) == U32(c.cached_producer - c.cached_consumer)

\* Cursors::acquire_consumer: the Cursors after the call; it returns their
\* cached_consumer()
AcquireConsumer(c, watermark) ==
    IF CachedConsumer(c) >= watermark
    THEN c
    ELSE [c EXCEPT !.cached_producer = counters.producer]

\* what no operation on the Cursors changes
NoCursorVars ==
    <<unfilled, filled, ProducerVars, ConsumerVars, BuildVars, closed, LoopVars, SetVars,
      rxtask, DriverGhosts>>

\* the producer calls acquire_producer(watermark)
ProducerAcquire(watermark) ==
    /\ Running /\ wiring.producer = "cursors" /\ releasing.producer = None
    /\ producer' = AcquireProducer(producer, watermark)
    /\ last' = Op("acquire", [side |-> "producer", actual |-> CachedProducer(producer'),
                              loaded |-> ~(CachedProducer(producer) >= watermark)])
    /\ UNCHANGED <<counters, consumer, releasing, oracle, NoCursorVars, panicked>>

\* release_producer(len) of a debug build, up to its assertion; len is at most
\* what the producer has acquired
ProducerReleaseAssert(len) ==
    /\ Running /\ wiring.producer = "cursors" /\ releasing.producer = None
    /\ debug
    /\ len <= CachedProducer(producer)
    /\ LET c == AcquireProducer(producer, len) IN
       IF CachedProducer(c) >= len
       THEN /\ producer' = c
            /\ releasing' = [releasing EXCEPT !.producer = Some(len)]
            /\ last' = NoOp
            /\ UNCHANGED <<counters, consumer, oracle, NoCursorVars, panicked>>
       ELSE /\ panicked' = "release_producer"
            /\ UNCHANGED <<CursorVars, NoCursorVars, last>>

\* release_producer(len): the two additions; the Oracle moves len entries
\* from free to filled
ProducerRelease(len) ==
    /\ Running /\ wiring.producer = "cursors"
    /\ IF debug
       THEN releasing.producer = Some(len)
       ELSE releasing.producer = None /\ len <= CachedProducer(producer)
    /\ producer' = [producer EXCEPT !.cached_producer = U32(@ + len)]
    /\ counters' = [counters EXCEPT !.producer = U32(@ + len)]
    /\ releasing' = [releasing EXCEPT !.producer = None]
    /\ oracle' = [producer |-> oracle.producer - len, consumer |-> oracle.consumer + len]
    /\ last' = Op("release", [side |-> "producer", len |-> len])
    /\ UNCHANGED <<consumer, NoCursorVars, panicked>>

\* the consumer calls acquire_consumer(watermark)
ConsumerAcquire(watermark) ==
    /\ Running /\ wiring.consumer = "cursors" /\ releasing.consumer = None
    /\ consumer' = AcquireConsumer(consumer, watermark)
    /\ last' = Op("acquire", [side |-> "consumer", actual |-> CachedConsumer(consumer'),
                              loaded |-> ~(CachedConsumer(consumer) >= watermark)])
    /\ UNCHANGED <<counters, producer, releasing, oracle, NoCursorVars, panicked>>

\* release_consumer(len) of a debug build, up to its assertion; len is at most
\* what the consumer has acquired
ConsumerReleaseAssert(len) ==
    /\ Running /\ wiring.consumer = "cursors" /\ releasing.consumer = None
    /\ debug
    /\ len <= CachedConsumer(consumer)
    /\ LET c == AcquireConsumer(consumer, len) IN
       IF CachedConsumer(c) >= len
       THEN /\ consumer' = c
            /\ releasing' = [releasing EXCEPT !.consumer = Some(len)]
            /\ last' = NoOp
            /\ UNCHANGED <<counters, producer, oracle, NoCursorVars, panicked>>
       ELSE /\ panicked' = "release_consumer"
            /\ UNCHANGED <<CursorVars, NoCursorVars, last>>

\* release_consumer(len): the two additions; the Oracle moves len entries
\* from filled to free
ConsumerRelease(len) ==
    /\ Running /\ wiring.consumer = "cursors"
    /\ IF debug
       THEN releasing.consumer = Some(len)
       ELSE releasing.consumer = None /\ len <= CachedConsumer(consumer)
    /\ consumer' = [consumer EXCEPT !.cached_consumer = U32(@ + len)]
    /\ counters' = [counters EXCEPT !.consumer = U32(@ + len)]
    /\ releasing' = [releasing EXCEPT !.consumer = None]
    /\ oracle' = [producer |-> oracle.producer + len, consumer |-> oracle.consumer - len]
    /\ last' = Op("release", [side |-> "consumer", len |-> len])
    /\ UNCHANGED <<producer, NoCursorVars, panicked>>

(***************************************************************************)
(* Specifications                                                          *)
(***************************************************************************)
\* the uses of a pair: the TX pair of Io::start (Endpoint::transmit pushes, a
\* socket TX task drains), its RX pair (a socket RX task fills,
\* Endpoint::receive drains), and a pair used through tx::Queue and rx::Queue
TxWirings == [producer : {"push"}, consumer : {"msg_tx", "std_tx"}]

RxWirings == [producer : {"msg_rx", "std_rx"}, consumer : {"queue"}]

ChanWirings == [producer : {"push"}, consumer : {"queue"}]

Wirings == TxWirings \cup RxWirings \cup ChanWirings

\* the state after pair(MaxPayload, Count), used as w, recording the ghosts t,
\* in a build whose cfg!(debug_assertions) is one of builds
InitIn(ws, t, builds) ==
    /\ unfilled = PairInner
    /\ filled = <<>>
    /\ ubuf = None /\ fbuf = None /\ hand = None
    /\ uslice = "none" /\ fslice = "none"
    /\ rxcount = 0 /\ txcount = 0
    /\ wiring \in ws
    /\ debug \in builds
    /\ panicked = "no"
    /\ nextSeq = 1 /\ delivered = 0
    /\ last = NoOp
    /\ track = t
    /\ closed = {}
    /\ ucap = 0
    /\ txwait = "none"
    /\ atcap = FALSE
    /\ pc = IF wiring.producer = "loop" THEN "select" ELSE "off"
    /\ rx_result = "None" /\ tx_result = "None"
    /\ rxq = <<>>
    /\ rxdropped = FALSE
    /\ calls = <<>>
    /\ timer = None
    /\ rxtask = "off"
    /\ SetOf(IF wiring.producer = "set" THEN SetLen ELSE 0)
    /\ \E size \in (IF wiring.producer = "cursors" THEN 1..MaxRingSize ELSE {0}) :
           CursorsOf(size)
    /\ retry = NoRetry
    /\ tick = 0

\* the same in the release build
InitOf(ws, t) == InitIn(ws, t, {FALSE})

Init == InitOf(Wirings, {})

\* a ring pair under every operation of its two ends
Next ==
    \/ TxTrySlice
    \/ \E m \in PlainMessages : Push(m)
    \/ DropSlice
    \/ RxApplyStart
    \/ \E r \in PlainRecvResults : RxApplyStep(r)
    \/ StdRxApplyStart
    \/ \E r \in PlainStdRecvResults : StdRxApplyStep(r)
    \/ RxTrySlice
    \/ Pop
    \/ NextSegmentCall
    \/ Finish
    \/ RxDropSlice
    \/ TxApplyStart
    \/ \E r \in SendResults : TxApplyStep(r)
    \/ StdTxApplyStart
    \/ \E k \in StdSendResults : StdTxApplyStep(k)

Spec == Init /\ [][Next]_vars

\* the same, each push to the filled queue stamped
InitFifo == InitOf(Wirings, {"seq"})

SpecFifo == InitFifo /\ [][Next]_vars

\* the pairs a tx::Queue user pushes to, under the messages that differ in what
\* decides the path through push, the outcome of each push recorded, in runs of
\* at most MaxPushes pushes to the filled queue
PushWirings == TxWirings \cup ChanWirings

InitPush == InitOf(PushWirings, {"push", "count"})

NextPush ==
    \/ TxTrySlice
    \/ \E m \in PlainMessages : Push(m)
    \/ DropSlice
    \/ RxTrySlice
    \/ Pop
    \/ NextSegmentCall
    \/ Finish
    \/ RxDropSlice
    \/ TxApplyStart
    \/ \E r \in SendResults : TxApplyStep(r)
    \/ StdTxApplyStart
    \/ \E k \in StdSendResults : StdTxApplyStep(k)

SpecPush == InitPush /\ [][NextPush]_vars

\* the TX pair of Io::start under messages of every handle and ECN, the writes
\* of each entry recorded
InitTx == InitOf(TxWirings, {"push", "writes"})

NextTx ==
    \/ TxTrySlice
    \/ \E m \in Messages : Push(m)
    \/ DropSlice
    \/ TxApplyStart
    \/ \E r \in SendResults : TxApplyStep(r)
    \/ StdTxApplyStart
    \/ \E k \in StdSendResults : StdTxApplyStep(k)

SpecTx == InitTx /\ [][NextTx]_vars

\* a pair used through tx::Queue on one end and rx::Queue on the other, the
\* writes and the reads of each entry recorded
InitChan == InitOf(ChanWirings, {"next_segment", "writes", "reads"})

NextChan ==
    \/ TxTrySlice
    \/ \E m \in PlainMessages : Push(m)
    \/ DropSlice
    \/ RxTrySlice
    \/ Pop
    \/ NextSegmentCall
    \/ Finish
    \/ RxDropSlice

SpecChan == InitChan /\ [][NextChan]_vars

\* a ring pair under every operation of its two ends, the outcome of each drop
\* of a slice recorded, in runs of at most MaxPushes pushes to the filled queue
InitDrop == InitOf(Wirings, {"drop", "count"})

SpecDrop == InitDrop /\ [][Next]_vars

\* a pair whose Unfilled end a tx::Queue user holds, under the polls of
\* poll_slice and of tx_ready and the drop of either end, the outcome of each
\* poll recorded, in runs of at most MaxPushes pushes to the filled queue
InitReady == InitOf(PushWirings, {"poll_slice", "tx_ready", "capacity", "count"})

\* the messages of one byte, which leave an entry buffered
ReadyMessages == {m \in PlainMessages : m.wr = 1}

NextReady ==
    \/ TxTrySlice
    \/ \E m \in ReadyMessages : Push(m)
    \/ DropSlice
    \/ RxTrySlice
    \/ Pop
    \/ NextSegmentCall
    \/ Finish
    \/ RxDropSlice
    \/ TxApplyStart
    \/ \E r \in SendResults : TxApplyStep(r)
    \/ StdTxApplyStart
    \/ \E k \in StdSendResults : StdTxApplyStep(k)
    \/ TxReadyPoll
    \/ TxPollSlice
    \/ RxPollSlice
    \/ DropUnfilled
    \/ DropFilled

SpecReady == InitReady /\ [][NextReady]_vars

\* the TX pair of Io::start, whose producer awaits tx_ready() and whose consumer
\* is a socket TX task, the outcome of each push and of each poll recorded; a
\* future whose waker was woken is polled again
InitBackPressure == InitOf(TxWirings, {"tx_ready", "capacity", "push"})

NextBackPressure ==
    \/ TxTrySlice
    \/ \E m \in ReadyMessages : Push(m)
    \/ DropSlice
    \/ TxApplyStart
    \/ \E r \in SendResults : TxApplyStep(r)
    \/ StdTxApplyStart
    \/ \E k \in StdSendResults : StdTxApplyStep(k)
    \/ TxReadyPoll

SpecBackPressure ==
    InitBackPressure /\ [][NextBackPressure]_vars /\ WF_vars(TxReadyPoll)

\* EventLoop::start as Io::start runs it: the loop, the socket RX task and a
\* socket TX task, either of which can return or be aborted
LoopWirings == [producer : {"loop"}, consumer : {"msg_tx", "std_tx"}]

InitLoop == InitOf(LoopWirings, {"capacity"})

\* the steps of the event loop task
LoopStep ==
    \/ \E wake \in BOOLEAN : LoopSelect(wake)
    \/ LoopReceive
    \/ LoopTransmit
    \/ \E m \in ReadyMessages : Push(m)
    \/ DropSlice
    \/ LoopTransmitReturn
    \/ LoopTimeout(None)

NextLoop ==
    \/ LoopStep
    \/ RxTaskFill
    \/ RxTaskDrop
    \/ TxApplyStart
    \/ \E r \in SendResults : TxApplyStep(r)
    \/ StdTxApplyStart
    \/ \E k \in StdSendResults : StdTxApplyStep(k)
    \/ DropFilled

SpecLoop == InitLoop /\ [][NextLoop]_vars

\* the same, the event loop task being run as long as it can take a step
SpecLoopFair == SpecLoop /\ WF_vars(LoopStep)

\* a ring set of SetLen pairs under try_slice, pop and finish, the drop of the
\* slices and of the two ends
SetWirings == [producer : {"set"}, consumer : {"set"}]

InitSet == InitOf(SetWirings, {"set_finish", "count"})

NextSet ==
    \/ SetTrySlice
    \/ SetPush
    \/ SetDropSlice
    \/ FilledSetTrySlice
    \/ FilledSetPollSlice
    \/ SetPop
    \/ \E entry \in set_hand : SetFinish(entry)
    \/ SetDropFilledSlice
    \/ DropUnfilledSet
    \/ DropFilledSet

SpecSet == InitSet /\ [][NextSet]_vars

\* the consumer of a ring set under poll_slice and try_slice, pop and the drop
\* of its slice, while the producer fills the pairs; each poll_slice and each
\* pop is recorded
InitSetConsumer == InitOf(SetWirings, {"set_poll", "set_pop", "count"})

NextSetConsumer ==
    \/ SetTrySlice
    \/ SetPush
    \/ SetDropSlice
    \/ FilledSetTrySlice
    \/ FilledSetPollSlice
    \/ SetPop
    \/ SetDropFilledSlice
    \/ DropUnfilledSet

SpecSetConsumer == InitSetConsumer /\ [][NextSetConsumer]_vars

\* the producer of a ring set, which may poll tx_ready, and a consumer that
\* does nothing but drop the FilledSet; each try_slice is recorded until
\* tx_ready is polled
InitSetProducer == InitOf(SetWirings, {"targets", "capacity", "count"})

NextSetProducer ==
    \/ SetTrySlice
    \/ SetPush
    \/ SetDropSlice
    \/ SetTxReadyPoll
    \/ DropFilledSet

SpecSetProducer == InitSetProducer /\ [][NextSetProducer]_vars

\* the same producer and consumer, each poll of tx_ready recorded with the
\* cursor it started from and the pair its walk stopped at
InitSetReady == InitOf(SetWirings, {"set_tx_ready", "capacity", "count"})

SpecSetReady == InitSetReady /\ [][NextSetProducer]_vars

\* the Cursors of the two sides of an XDP ring of any size up to MaxRingSize,
\* in either build, under every interleaving of their operations
CursorWirings == [producer : {"cursors"}, consumer : {"cursors"}]

\* the counts a side passes to acquire and to release
CursorCounts == 0..(MaxRingSize + 1)

InitCursors == InitIn(CursorWirings, {"acquire"}, BOOLEAN)

NextCursors ==
    \/ \E watermark \in CursorCounts : ProducerAcquire(watermark)
    \/ \E len \in CursorCounts : ProducerReleaseAssert(len)
    \/ \E len \in CursorCounts : ProducerRelease(len)
    \/ \E watermark \in CursorCounts : ConsumerAcquire(watermark)
    \/ \E len \in CursorCounts : ConsumerReleaseAssert(len)
    \/ \E len \in CursorCounts : ConsumerRelease(len)

SpecCursors == InitCursors /\ [][NextCursors]_vars

\* Buffer::reset as a function: a Buffer of any data length and any value of
\* its four u16 fields (all pub(crate)), reset once and again
BufferWirings == {[producer |-> "buffer", consumer |-> "buffer"]}

\* values of a u16 field: the small ones and the largest
CursorValues == (0..MaxPayload) \cup {U16Mod - 1}

\* Buffer: the entry with the length of its boxed data
BufferOf(len, size, count, write, read) ==
    ("data" :> len) @@
    [NewEntry EXCEPT !.segment_size = size, !.segment_count = count,
                     !.segment_write_cursor = write, !.segment_read_cursor = read]

AnyBuffers ==
    {BufferOf(len, size, count, write, read) :
        len \in 1..MaxPayload, size \in CursorValues, count \in CursorValues,
        write \in CursorValues, read \in CursorValues}

\* a Buffer in some cursor state
BufferWith(b) ==
    /\ Running /\ wiring.producer = "buffer" /\ hand = None
    /\ hand' = Some(b)
    /\ last' = NoOp
    /\ UNCHANGED <<unfilled, filled, fbuf, fslice, txcount, delivered,
                   ProducerVars, BuildVars, OutsideVars, panicked>>

\* Buffer::reset on it, with the invariants() that ends it; `last` keeps the
\* Buffer before the first reset, the Buffer after it, and whether this reset
\* is the first
BufferReset ==
    /\ Running /\ wiring.producer = "buffer" /\ hand # None
    /\ LET b == Reset(hand[1]) IN
       IF InvariantsPanic(b)
       THEN Panic("panic_invariants")
       ELSE /\ hand' = Some(b)
            /\ last' = IF last.op = "reset"
                       THEN Op("reset", [last.res EXCEPT !.first = FALSE])
                       ELSE Op("reset", [before |-> hand[1], once |-> b, first |-> TRUE])
            /\ UNCHANGED <<unfilled, filled, fbuf, fslice, txcount, delivered,
                           ProducerVars, BuildVars, OutsideVars, panicked>>

InitBuffer == InitIn(BufferWirings, {"reset"}, BOOLEAN)

NextBuffer ==
    \/ \E b \in AnyBuffers : BufferWith(b)
    \/ BufferReset

SpecBuffer == InitBuffer /\ [][NextBuffer]_vars

\* the RX pair of Io::start: a socket RX task fills the slots and the endpoint
\* reads them with next_segment, each iteration of the driver and each range
\* that next_segment returns recorded, in runs of at most MaxPushes pushes to
\* the filled queue
InitRx ==
    InitOf(RxWirings, {"reads", "next_segment", "rx_step", "std_rx_step", "count"})

NextRx ==
    \/ RxApplyStart
    \/ \E r \in RecvResults : RxApplyStep(r)
    \/ StdRxApplyStart
    \/ \E r \in StdRecvResults : StdRxApplyStep(r)
    \/ RxTrySlice
    \/ Pop
    \/ NextSegmentCall
    \/ Finish
    \/ RxDropSlice

SpecRx == InitRx /\ [][NextRx]_vars

\* a slot of the RX pair of Io::start, pair(u16::MAX, 4096): msg Rx::apply fills
\* it from a datagram of a length and a GRO segment size near the ends of the
\* u16 range, and the endpoint reads it with next_segment
WideWirings == {[producer |-> "wide_rx", consumer |-> "queue"]}

U16Max == U16Mod - 1

WideLens == (1..(1 + MaxSlack)) \cup {U16Max - d : d \in 0..MaxSlack}

WideGros ==
    {0} \cup
    ({(U16Mod \div k) + d : k \in 1..(MaxSegments + 1), d \in (0 - MaxSlack)..MaxSlack}
        \cap (1..U16Max))

\* Rx::apply: the slot after a receive with a remote address, as the endpoint
\* pops it from the filled queue
WideRecv(len, gro) ==
    /\ Running /\ wiring.producer = "wide_rx" /\ hand = None
    /\ LET r == [kind |-> "Ok", len |-> len, addr |-> TRUE, handle |-> DefaultHandle,
                 gro |-> gro]
           got == RxFillOf(NewEntry, r, U16Max)
       IN
       IF InvariantsPanic(got)
       THEN Panic("panic_invariants")
       ELSE /\ hand' = Some(got)
            /\ last' = NoOp
            /\ UNCHANGED <<unfilled, filled, fbuf, fslice, txcount, delivered,
                           ProducerVars, BuildVars, OutsideVars, panicked>>

\* rx::Entry::next_segment on that slot
WideNextSegment ==
    /\ Running /\ wiring.producer = "wide_rx" /\ hand # None
    /\ LET r == NextSegmentOf(hand[1], U16Max) IN
       IF IsPanic(r.res)
       THEN Panic(r.res)
       ELSE /\ hand' = Some(r.entry)
            /\ last' = Op("next_segment", r.res)
            /\ UNCHANGED <<unfilled, filled, fbuf, fslice, txcount, delivered,
                           ProducerVars, BuildVars, OutsideVars, panicked>>

InitWide == InitIn(WideWirings, {"reads", "next_segment"}, BOOLEAN)

NextWide ==
    \/ \E len \in WideLens, gro \in WideGros : WideRecv(len, gro)
    \/ WideNextSegment

SpecWide == InitWide /\ [][NextWide]_vars

\* the TX pair of Io::start with each iteration of the socket TX driver
\* recorded, in runs of at most MaxPushes pushes to the filled queue
TxMessages == MessagesOf({1}, {DefaultEcn})

InitSocketTx == InitOf(TxWirings, {"tx_step", "std_tx_step", "count"})

NextSocketTx ==
    \/ TxTrySlice
    \/ \E m \in TxMessages : Push(m)
    \/ DropSlice
    \/ TxApplyStart
    \/ \E r \in SendResults : TxApplyStep(r)
    \/ StdTxApplyStart
    \/ \E k \in StdSendResults : StdTxApplyStep(k)

SpecSocketTx == InitSocketTx /\ [][NextSocketTx]_vars

\* the TX pair with the stdlib TX driver, the segments each slot has had sent
\* recorded in the slot, in runs of at most MaxPushes pushes to the filled queue
StdTxWirings == {w \in TxWirings : w.consumer = "std_tx"}

InitStdTx == InitOf(StdTxWirings, {"std_tx_step", "sends", "count"})

NextStdTx ==
    \/ TxTrySlice
    \/ \E m \in TxMessages : Push(m)
    \/ DropSlice
    \/ StdTxApplyStart
    \/ \E k \in StdSendResults : StdTxApplyStep(k)

SpecStdTx == InitStdTx /\ [][NextStdTx]_vars

\* EventLoop::start with an endpoint whose timeout() returns None or any
\* timestamp up to MaxTime, what it returned recorded; the socket RX task and
\* the msg TX task run, and the RX task can return
Timeouts == {None} \cup {Some(ts) : ts \in 1..MaxTime}

TimerWirings == {w \in LoopWirings : w.consumer = "msg_tx"}

InitTimer == InitOf(TimerWirings, {"timeout", "capacity"})

TimerLoopStep ==
    \/ \E wake \in BOOLEAN : LoopSelect(wake)
    \/ LoopReceive
    \/ LoopTransmit
    \/ \E m \in ReadyMessages : Push(m)
    \/ DropSlice
    \/ LoopTransmitReturn
    \/ \E timeout \in Timeouts : LoopTimeout(timeout)

NextTimer ==
    \/ TimerLoopStep
    \/ RxTaskFill
    \/ RxTaskDrop
    \/ TxApplyStart
    \/ \E r \in SendResults : TxApplyStep(r)

SpecTimer == InitTimer /\ [][NextTimer]_vars

\* the msg drivers of Io::start: Tx::apply on the TX pair, Rx::apply on the
\* RX pair, under every result of sendmsg and recvmsg; the syscalls on each
\* slot are counted, in runs of at most MaxPushes pushes to the filled queue
DriverWirings ==
    {[producer |-> "push", consumer |-> "msg_tx"],
     [producer |-> "msg_rx", consumer |-> "queue"]}

InitDrivers == InitOf(DriverWirings, {"retries", "count"})

NextDrivers ==
    \/ TxTrySlice
    \/ \E m \in ReadyMessages : Push(m)
    \/ DropSlice
    \/ RxApplyStart
    \/ \E r \in PlainRecvResults : RxApplyStep(r)
    \/ RxTrySlice
    \/ Pop
    \/ NextSegmentCall
    \/ Finish
    \/ RxDropSlice
    \/ TxApplyStart
    \/ \E r \in SendResults : TxApplyStep(r)

SpecDrivers == InitDrivers /\ [][NextDrivers]_vars

\* the same drivers in runs of any length, each syscall told from the one
\* before it and the pushes and finishes of the other end recorded; the task
\* that is inside the loop of apply goes on with it
InitDriversFair == InitOf(DriverWirings, {"syscalls", "push", "finish"})

SpecDriversFair ==
    /\ InitDriversFair
    /\ [][NextDrivers]_vars
    /\ WF_vars(\E r \in PlainRecvResults : RxApplyStep(r))
    /\ WF_vars(\E r \in SendResults : TxApplyStep(r))

\* the socket RX task msg::rx on the RX pair and Endpoint::receive on its
\* Filled end, which the event loop may drop; recvmsg returns a datagram or
\* WouldBlock, so that every apply returns; a task that can take a step takes
\* it, and the socket is readable again and again
RxTaskWirings == {w \in RxWirings : w.producer = "msg_rx"}

TaskRecvResults == {r \in PlainRecvResults : r.kind = "WouldBlock" \/ (r.kind = "Ok" /\ r.addr)}

InitRxTask == InitOf(RxTaskWirings, {})

RxTaskStep ==
    \/ RxTaskSpawn
    \/ RxTaskReady
    \/ \E ok \in BOOLEAN : RxTaskReadable(ok)
    \/ RxTaskTrySlice
    \/ \E r \in TaskRecvResults : RxApplyStep(r)
    \/ RxTaskNext

NextRxTask ==
    \/ RxTaskStep
    \/ RxTrySlice
    \/ Pop
    \/ NextSegmentCall
    \/ Finish
    \/ RxDropSlice
    \/ DropFilled

SpecRxTask ==
    /\ InitRxTask
    /\ [][NextRxTask]_vars
    /\ WF_vars(RxTaskStep)
    /\ SF_vars(RxTaskReadable(TRUE))



(***************************************************************************)
(* Properties of the pair                                                  *)
(***************************************************************************)
\* every entry of the pair, wherever it is
Slots == unfilled \o filled \o ubuf \o fbuf \o hand

SlotSet == {Slots[i] : i \in 1..Len(Slots)}

\* C1: slot conservation. In every reachable state the entries in the unfilled
\* queue, in the filled queue, in the buffer of either end and in the hand of
\* the consumer are count together.
SlotConservation ==
    Len(unfilled) + Len(filled) + Len(ubuf) + Len(fbuf) + Len(hand) = Count

\* C1, its case: the producer keeps an entry buffered while the consumer holds
\* another one, and both queues are empty
SlotsHeldOnBothEnds ==
    /\ ubuf # None /\ hand # None
    /\ unfilled = <<>> /\ filled = <<>>

\* C2: FIFO, exactly-once delivery. With the pushes to the filled queue stamped
\* 1, 2, 3, .. in push order and `delivered` the stamp of the entry popped last,
\* the filled queue holds exactly the entries delivered + 1 .. nextSeq - 1 in
\* that order, so that a pop of the queue returns the successor of the entry
\* popped last; an entry the consumer re-buffered or holds is the entry popped
\* last, which the next pop returns before any queued entry.
FifoDelivery ==
    /\ Len(filled) = nextSeq - 1 - delivered
    /\ \A i \in 1..Len(filled) : filled[i].seq = delivered + i
    /\ fbuf # None => fbuf[1].seq = delivered
    /\ hand # None => hand[1].seq = delivered

\* C2, its case: the second entry pushed was popped after the first and then
\* re-buffered by the consumer, with a third entry queued behind it
RebufferedBeforeQueued ==
    /\ delivered = 2
    /\ fbuf # None
    /\ filled # <<>>

\* C7: emptiness of the segment buffer. For every entry in every reachable
\* state, segment_count > 0 iff segment_size > 0 iff segment_write_cursor > 0.
EmptinessInvariant ==
    \A e \in SlotSet :
        /\ (e.segment_count > 0) <=> (e.segment_size > 0)
        /\ (e.segment_size > 0) <=> (e.segment_write_cursor > 0)

\* C8: order of the cursors. For every entry in every reachable state,
\* segment_read_cursor <= segment_write_cursor <= MaxPayload.
CursorOrder ==
    \A e \in SlotSet :
        /\ e.segment_read_cursor <= e.segment_write_cursor
        /\ e.segment_write_cursor <= MaxPayload

(***************************************************************************)
(* Properties of tx push                                                   *)
(***************************************************************************)
\* the step is a call of push(m) that returned res
PushReturned(m, res) ==
    /\ last' = [op |-> "push", res |-> res]
    /\ panicked' = "no"
    /\ Push(m)

\* the entry a push that returned Ok wrote to: the buffered one, or else the one
\* it pushed to the filled queue
Landed == IF ubuf # None THEN ubuf[1] ELSE filled[Len(filled)]

\* the buffered entry e can take the message m: it is empty, or m may follow its
\* segments (the message allows GSO and has the ECN and the handle of the entry)
TakesMessage(e, m) ==
    \/ e.segment_size = 0
    \/ m.gso /\ e.ecn = m.ecn /\ e.handle = m.handle

\* the entry push(m) looks at first: the buffered one, or else the head of the
\* unfilled queue; and the unfilled queue behind it
Candidate == IF ubuf # None THEN ubuf[1] ELSE Head(unfilled)

BehindCandidate == IF ubuf # None THEN unfilled ELSE Tail(unfilled)

\* the entry push(m) offers to the writer
Target(m) ==
    IF TakesMessage(Candidate, m) THEN Candidate ELSE Head(BehindCandidate)

\* C3: GSO coalescing, the half of it that says when two segments share an
\* entry. Of two successful pushes in a row on one slice, the first of which
\* left its entry buffered: if the two messages have the same ECN and the same
\* handle, the second allows GSO, and each wrote segment_size bytes, then the
\* second segment is written to the entry of the first.
GsoCoalescing ==
    [][\A m \in Messages :
        (last = [op |-> "push", res |-> "Ok"] /\ ubuf # None /\ PushReturned(m, "Ok")) =>
            LET first == ubuf[1]
                len1 == first.writes[Len(first.writes)]
            IN  ( /\ m.ecn = first.mecn
                  /\ m.handle = first.handle
                  /\ m.gso
                  /\ len1 = first.segment_size
                  /\ m.wr = first.segment_size )
                => Landed'.writes = Append(first.writes, m.wr)]_vars

\* C4: metadata of the first write. After a push(m) that returned Ok and wrote
\* len bytes to an empty entry, the entry has segment_size = len,
\* segment_count = 1, segment_write_cursor = len, the handle of m and the ECN
\* of m, which is the ECN Tx::apply sends the entry with.
FirstWriteMetadata ==
    [][\A m \in Messages :
        (PushReturned(m, "Ok") /\ Target(m).segment_count = 0) =>
            /\ Landed'.segment_size = m.wr
            /\ Landed'.segment_count = 1
            /\ Landed'.segment_write_cursor = m.wr
            /\ Landed'.handle = m.handle
            /\ Landed'.ecn = m.ecn]_vars

\* C5: force-flush. A push(m) that returned Ok pushes its entry to the filled
\* queue and leaves no entry buffered if it wrote less than segment_size bytes
\* or one more segment of segment_size bytes does not fit after it, and
\* otherwise keeps the entry buffered and out of the filled queue; the push
\* after one that flushed its entry starts at the head of the unfilled queue,
\* with segment index 0.
ForceFlush ==
    [][\A m \in PlainMessages :
        PushReturned(m, "Ok") =>
            LET e == Landed'
                must == \/ m.wr < e.segment_size
                        \/ e.segment_write_cursor + e.segment_size > MaxPayload
            IN  /\ must => ubuf' = None /\ filled' # <<>>
                /\ ~must => ubuf' # None /\ filled' \in {filled, filled \o ubuf}
                /\ (last = [op |-> "push", res |-> "Ok"] /\ ubuf = None) =>
                      /\ unfilled # <<>> /\ unfilled' = Tail(unfilled)
                      /\ e.segment_count = 1
                      /\ e.segment_write_cursor = m.wr]_vars

\* C9, as stated: a push(m) whose writer returned Err leaves the entry that
\* was buffered before the call buffered and unchanged, and adds nothing to the
\* filled queue.
WriterErrorLeavesStateUnchanged ==
    [][\A m \in PlainMessages :
        PushReturned(m, "WriterErr") =>
            /\ ubuf # None => ubuf' = ubuf
            /\ filled' = filled]_vars

\* C9, amended: a push(m) whose writer returned Err leaves the entry it offered
\* to the writer buffered and unchanged, and commits no write. That is the entry
\* buffered before the call (or, with none buffered, the head of the unfilled
\* queue) if that entry can take m, and then the filled queue does not change;
\* otherwise that entry is pushed unchanged to the filled queue and the next
\* entry of the unfilled queue is the one offered and left buffered.
WriterErrorRebuffers ==
    [][\A m \in PlainMessages :
        PushReturned(m, "WriterErr") =>
            /\ ubuf # None \/ unfilled # <<>>
            /\ IF TakesMessage(Candidate, m)
               THEN /\ ubuf' = Some(Candidate)
                    /\ unfilled' = BehindCandidate
                    /\ filled' = filled
               ELSE /\ BehindCandidate # <<>>
                    /\ ubuf' = Some(Head(BehindCandidate))
                    /\ unfilled' = Tail(BehindCandidate)
                    /\ filled' = Append(filled, Candidate)]_vars

\* C9, its case: the writer returned Err for a message the buffered entry could
\* not take: that entry is in the filled queue, an empty one is buffered
WriterErrorAfterFlush ==
    /\ last = [op |-> "push", res |-> "WriterErr"]
    /\ ubuf # None /\ ubuf[1].segment_count = 0
    /\ filled # <<>>
    /\ fslice = "none" /\ fbuf = None /\ hand = None
    /\ Len(unfilled) + Len(filled) = Count - 1

\* C10: AtCapacity. push(m) returns AtCapacity when no entry is buffered and
\* the unfilled queue is empty; it never returns AtCapacity while the buffered
\* entry or an entry of the unfilled queue can take m; and when it returns
\* AtCapacity it has written to no entry: it leaves no entry buffered, the
\* unfilled queue empty, and the entry that was buffered or queued, if any,
\* in the filled queue as it was.
AtCapacity ==
    [][\A m \in PlainMessages :
        ( /\ (ubuf = None /\ unfilled = <<>>) \/ last'.res = "AtCapacity"
          /\ PushReturned(m, last'.res) ) =>
            /\ (ubuf = None /\ unfilled = <<>>) => last'.res = "AtCapacity"
            /\ last'.res = "AtCapacity" =>
                  /\ \A i \in 1..Len(ubuf \o unfilled) :
                        ~TakesMessage((ubuf \o unfilled)[i], m)
                  /\ ubuf' = None
                  /\ unfilled' = <<>>
                  /\ filled' = filled \o ubuf \o unfilled]_vars

\* C10, its case: with nothing drained, the push after count messages that
\* each took an entry of its own returned AtCapacity
PushRejectedWhenAllFilled ==
    /\ last = [op |-> "push", res |-> "AtCapacity"]
    /\ Len(filled) = Count
    /\ \A i \in 1..Count : filled[i].segment_count = 1
    /\ fslice = "none"

(***************************************************************************)
(* Properties of a write followed by a read                                *)
(***************************************************************************)
RECURSIVE SumTo(_, _)
\* the sum of the first n lengths of w
SumTo(w, n) == IF n = 0 THEN 0 ELSE SumTo(w, n - 1) + w[n]

\* the regions writes of the lengths w fill, one after the other from offset 0
Regions(w) == [i \in 1..Len(w) |-> <<SumTo(w, i - 1), SumTo(w, i)>>]

\* C6: segment round-trip. An entry that took pushes of positive lengths, none
\* of which flushed it, and was then flushed and popped by the consumer yields
\* through next_segment the regions written, in order, and then None.
SegmentRoundTrip ==
    ( /\ last = [op |-> "next_segment", res |-> "None"]
      /\ hand # None
      /\ hand[1].writes # <<>>
      /\ \A i \in 1..Len(hand[1].writes) : hand[1].writes[i] > 0
      /\ ~hand[1].forced )
    => hand[1].reads = Regions(hand[1].writes)

(***************************************************************************)
(* Properties of the return and of the drop                                *)
(***************************************************************************)
\* an entry in the state Buffer::reset leaves
AllZero(e) ==
    /\ e.segment_size = 0 /\ e.segment_count = 0
    /\ e.segment_write_cursor = 0 /\ e.segment_read_cursor = 0

\* C11: finish resets and returns. After the consumer calls finish(entry) on a
\* FilledSlice the entry is the last of the unfilled queue and its segment_size,
\* segment_count, segment_write_cursor and segment_read_cursor are zero, so that
\* every entry of the unfilled queue is in the all-zero state.
FinishResets ==
    [][Finish =>
        /\ Len(unfilled') = Len(unfilled) + 1
        /\ AllZero(unfilled'[Len(unfilled')])
        /\ \A i \in 1..Len(unfilled') : AllZero(unfilled'[i])]_vars

\* C12: Drop flush. When the tx::Queue user drops its UnfilledSlice, a buffered
\* entry with segment_count > 0 is pushed to the filled queue and the buffer is
\* left empty, and a buffered entry with segment_count = 0 stays buffered and is
\* not pushed; and whoever held the slice, once it is dropped no entry with a
\* segment is left in the buffer of the Unfilled end.
DropFlush ==
    [][/\ DropSlice =>
            IF ubuf # None /\ ubuf[1].segment_count > 0
            THEN /\ filled' = Append(filled, ubuf[1])
                 /\ ubuf' = None
            ELSE /\ filled' = filled
                 /\ ubuf' = ubuf
       /\ (uslice # "none" /\ uslice' = "none") =>
            (ubuf' # None => ubuf'[1].segment_count = 0)]_vars

\* C12, its case: the drop of the slice pushed the buffered entry, which could
\* have taken one more segment, to the filled queue
DroppedSliceFlushed ==
    /\ last = [op |-> "drop", res |-> "flushed"]
    /\ ubuf = None
    /\ filled # <<>>
    /\ LET e == filled[Len(filled)] IN
       /\ e.segment_count > 0
       /\ e.segment_write_cursor + e.segment_size <= MaxPayload

(***************************************************************************)
(* Properties of readiness and closure                                     *)
(***************************************************************************)
\* the step was a poll of poll_slice by the given end, with the result res
PolledSlice(end, res) ==
    /\ last'.op = "poll_slice"
    /\ last'.res = [end |-> end, res |-> res]
    /\ IF end = "unfilled" THEN TxPollSlice ELSE RxPollSlice

\* C13: closure propagation. Once an end of the pair is dropped, a poll of
\* poll_slice by the other end completes with Ready(Err): it is never Pending,
\* whether or not entries are still queued toward the polling end, and it gives
\* no slice. In particular this holds once those entries are consumed, and for
\* Unfilled::poll_slice after the drop of the Filled end.
ClosurePropagation ==
    [][\A res \in {"Ok", "Err", "Pending"} :
        /\ (PolledSlice("unfilled", res) /\ ~Alive("filled")) => res = "Err"
        /\ (PolledSlice("filled", res) /\ ~Alive("unfilled")) => res = "Err"]_vars

\* C13, its case: the Filled end was dropped, the Unfilled end has taken every
\* entry of the unfilled queue, and its poll of poll_slice completed with Err
PollAfterDropOfFilled ==
    /\ last = [op |-> "poll_slice", res |-> [end |-> "unfilled", res |-> "Err"]]
    /\ ~Alive("filled")
    /\ unfilled = <<>>
    /\ uslice = "none"

\* C14: tx_ready is a back-pressure signal. A poll of tx_ready() completes with
\* Ok only if capacity() of the receiving half of the unfilled queue was zero at
\* that poll; a poll that finds it non-zero is Pending.
TxReadyIsBackPressure ==
    [][TxReadyPoll =>
        /\ last'.res = "Ok" => ucap = 0
        /\ ucap # 0 => last'.res = "Pending"]_vars

\* C14, its case: tx_ready() was polled while capacity() was non-zero, with an
\* entry in the unfilled queue, and is pending
TxReadyPendingWithCapacity ==
    /\ last = [op |-> "tx_ready", res |-> "Pending"]
    /\ txwait = "pending"
    /\ ucap > 0
    /\ unfilled # <<>>

\* C15: back-pressure recovery. A tx::Queue user of the TX pair that got
\* AtCapacity and waits on tx_ready(), its waker left in the empty unfilled
\* queue, sees tx_ready() complete with Ok once the socket TX task has returned
\* an entry to the unfilled queue, and its next push does not return AtCapacity.
BackPressureRecovery ==
    /\ (txwait = "parked" /\ atcap /\ unfilled # <<>>) ~> (txwait = "ready" /\ atcap)
    /\ [][\A m \in ReadyMessages :
            (txwait = "ready" /\ atcap /\ PushReturned(m, last'.res))
                => last'.res # "AtCapacity"]_vars

\* C15, its case: after AtCapacity and the return of one entry, tx_ready() has
\* completed with Ok and the user holds the slice of its retry
RetryAfterTxReady ==
    /\ txwait = "ready" /\ atcap
    /\ uslice = "push"
    /\ Len(unfilled) = 1
    /\ ubuf = None

(***************************************************************************)
(* Properties of the event loop                                            *)
(***************************************************************************)
\* C16: receive before transmit. In every iteration of the event loop the calls
\* of the endpoint are receive then transmit, or one of the two, or none:
\* transmit is never called before receive in the same iteration, and receive has
\* returned when transmit is called.
ReceiveBeforeTransmit ==
    /\ calls \in {<<>>, <<"receive">>, <<"transmit">>, <<"receive", "transmit">>}
    /\ uslice = "push" => (pc = "transmitting" /\ calls[Len(calls)] = "transmit")

\* C16, its case: in one iteration receive was called and has returned, and
\* transmit is running
TransmitAfterReceive ==
    /\ calls = <<"receive", "transmit">>
    /\ pc = "transmitting" /\ uslice = "push"

\* C17: event-loop shutdown on closure. Once the socket RX task has dropped its
\* Unfilled end and the socket TX task its Filled end, EventLoop::start returns,
\* whatever the unfilled queue of the TX pair holds; stated for the case that is
\* left when the loop has taken every datagram of the RX pair.
ShutdownOnClosure ==
    (rxdropped /\ rxq = <<>> /\ ~Alive("filled")) ~> (pc = "returned")

\* C18: on an UnfilledSet of N pairs, as long as tx_ready was not polled, the
\* k-th call of try_slice since construction (k = 0, 1, 2, ...) went to pair
\* k mod N, whether that pair gave a slice or not.
RoundRobin ==
    ~polled => \A i \in 1..Len(targets) : targets[i].pair = (i - 1) % SetN

\* MaxSetCalls calls of try_slice and no poll of tx_ready, one of the calls on
\* a pair that gave no slice
RoundRobinOverFailure ==
    /\ ~polled
    /\ Len(targets) = MaxSetCalls
    /\ \E i \in 1..Len(targets) : ~targets[i].ok

\* C19: a poll of UnfilledSet::tx_ready that finds a pair with free capacity
\* (capacity() > 0) completes with Ready(Ok), and a poll is Pending only when
\* every pair is pending: none has free capacity and the poll_slice of each
\* is Pending.
SetTxReadyWithCapacity ==
    [][SetTxReadyPoll =>
          /\ (\E p \in SetPairs : set_capacity[p] > 0) => SetTxReady = "Ok"
          /\ SetTxReady = "Pending" =>
                 \A p \in SetPairs :
                     set_capacity[p] = 0 /\ SetPollSlice(p) = "Pending"]_vars

\* the slots of pair k of the set: in its two queues and in the consumer's hand
SetSlotsOf(k) ==
    Len(set_unfilled[k]) + Len(set_filled[k])
        + Cardinality({entry \in set_hand : entry.queue = k})

\* C20: as long as the UnfilledSet is alive, FilledSetSlice::finish puts the
\* entry at the end of the unfilled queue of the pair whose index is the
\* entry's queue id, wherever the cursor of the slice is; and each pair keeps
\* its count slots, in its own queues or in the consumer's hand, under every
\* order of pop and finish.
SetRouting ==
    /\ [][\A entry \in set_hand :
             SetFinish(entry) /\ "unfilled" \notin set_closed =>
                 set_unfilled' = [set_unfilled EXCEPT ![entry.queue] = Append(@, entry)]]_vars
    /\ [](("unfilled" \notin set_closed) =>
             \A k \in SetPairs :
                 /\ SetSlotsOf(k) = Count
                 /\ \A i \in 1..Len(set_unfilled[k]) : set_unfilled[k][i].queue = k
                 /\ \A i \in 1..Len(set_filled[k]) : set_filled[k][i].queue = k)

\* finish has returned an entry to its pair while the cursor of the slice was
\* on another pair
ReturnedAcrossPairs ==
    /\ last.op = "set_finish"
    /\ last.res.cursor # last.res.entry.queue
    /\ "unfilled" \notin set_closed
    /\ \E i \in 1..Len(set_unfilled[last.res.entry.queue]) :
           set_unfilled[last.res.entry.queue][i] = last.res.entry

\* C21: with the producer and the consumer of an XDP ring interleaved in any
\* way and no release beyond what the side acquired, what acquire_producer
\* returns is at most the number of free entries, what acquire_consumer
\* returns is at most the number of entries the producer released and the
\* consumer did not, both are at most size, and the entries the two sides
\* hold at the same time are at most size: none is held by both.
CursorSafety ==
    /\ oracle.producer + oracle.consumer = counters.size
    /\ CachedProducer(producer) <= oracle.producer
    /\ CachedConsumer(consumer) <= oracle.consumer
    /\ CachedProducer(producer) + CachedConsumer(consumer) <= counters.size
    /\ last.op = "acquire" =>
           /\ last.res.actual <= counters.size
           /\ last.res.actual <=
                  IF last.res.side = "producer" THEN oracle.producer ELSE oracle.consumer
    /\ panicked = "no"

\* the consumer has acquired a full ring whose producer counter has wrapped
\* and whose consumer counter has not
AcquiredAcrossWrap ==
    /\ last.op = "acquire" /\ last.res.side = "consumer"
    /\ last.res.actual = counters.size
    /\ counters.size > 1
    /\ counters.producer < counters.consumer

\* C22: within one call of msg Tx::apply or Rx::apply, after a syscall on a
\* slot failed, the syscall is made again on that slot at most once before
\* apply returns or goes to another slot; and no error makes the driver panic.
BoundedRetry ==
    /\ retry.n <= 1
    /\ panicked = "no"

\* C23: after Buffer::reset on a Buffer in any cursor state, its segment_size,
\* segment_count, segment_write_cursor and segment_read_cursor are 0 and the
\* length of its data (and every other field) is what it was; the reset does
\* not panic; and after a second reset the Buffer is what it was after the first.
IdempotentReset ==
    /\ wiring.producer = "buffer" => panicked = "no"
    /\ last.op = "reset" =>
           /\ hand # None
           /\ hand[1].segment_size = 0
           /\ hand[1].segment_count = 0
           /\ hand[1].segment_write_cursor = 0
           /\ hand[1].segment_read_cursor = 0
           /\ hand[1].data = last.res.before.data
           /\ hand[1] = [last.res.before EXCEPT !.segment_size = 0,
                                                !.segment_count = 0,
                                                !.segment_write_cursor = 0,
                                                !.segment_read_cursor = 0]
           /\ hand[1] = last.res.once

\* a Buffer with every cursor at its largest value has been reset twice, in a
\* debug build
ResetTwice ==
    /\ debug
    /\ last.op = "reset"
    /\ ~last.res.first
    /\ last.res.before.segment_size = U16Mod - 1
    /\ last.res.before.segment_count = U16Mod - 1
    /\ last.res.before.segment_write_cursor = U16Mod - 1
    /\ last.res.before.segment_read_cursor = U16Mod - 1
    /\ last.res.before.data = MaxPayload

\* the i-th range of size s of a slot written up to w
Tile(i, s, w) == <<Min((i - 1) * s, w), Min(i * s, w)>>

\* the read cursor of the slot was 0 when the consumer popped it
ReadFromZero(e) ==
    IF e.reads = <<>> THEN e.segment_read_cursor = 0 ELSE e.reads[1][1] = 0

\* C24: on a slot of the filled queue, whose read cursor is 0 when it is
\* popped, the ranges that next_segment returned are [0, s), [s, 2s), ... with
\* s = segment_size, the last one ending at segment_write_cursor and none
\* empty; the read cursor is the end of the last range; next_segment returns
\* None exactly when the read cursor is at the write cursor; and once it is
\* there the number of ranges returned is segment_count.  (`last` is the
\* result of the call that led to the state, e.reads[n][1] the read cursor
\* before it.)
SegmentTiling ==
    hand # None /\ ReadFromZero(hand[1]) =>
        LET e == hand[1]
            n == Len(e.reads)
        IN
        /\ \A i \in 1..n :
               /\ e.reads[i] = Tile(i, e.segment_size, e.segment_write_cursor)
               /\ e.reads[i][1] < e.reads[i][2]
        /\ e.segment_read_cursor = (IF n = 0 THEN 0 ELSE e.reads[n][2])
        /\ last.op = "next_segment" /\ last.res = "None" => Exhausted(e)
        /\ last.op = "next_segment" /\ last.res = "Some" =>
               n > 0 /\ e.reads[n][1] # e.segment_write_cursor
        /\ Exhausted(e) => n = e.segment_count

\* C25: on a slot that the RX driver filled in a buffer of 65535 bytes, from
\* any length and any GRO segment size, every range that next_segment returned
\* ends after its start and at or before segment_write_cursor, the read cursor
\* is at or before the write cursor, and no call of next_segment panics (its
\* segment_read_cursor + segment_size stays below 2^16).
MonotonicReadCursor ==
    wiring.producer = "wide_rx" =>
        /\ panicked = "no"
        /\ hand # None =>
               LET e == hand[1] IN
               /\ e.segment_read_cursor <= e.segment_write_cursor
               /\ \A i \in 1..Len(e.reads) :
                      /\ e.reads[i][1] < e.reads[i][2]
                      /\ e.reads[i][2] <= e.segment_write_cursor

\* the iteration of a socket TX driver that led to the state popped a slot
TxStepOnSlot ==
    /\ last.op \in {"tx_step", "std_tx_step"}
    /\ last.res.entry # None

\* that iteration put the slot it popped at the end of the unfilled queue, in
\* the all-zero cursor state, and the loop of apply goes on
TxReturnedClean ==
    /\ Len(unfilled) = last.res.len + 1
    /\ AllZero(unfilled[Len(unfilled)])
    /\ unfilled[Len(unfilled)].handle = last.res.entry[1].handle
    /\ fslice = (IF last.op = "tx_step" THEN "msg_tx" ELSE "std_tx")

\* C26: an iteration of socket Tx::apply whose sendmsg succeeded or failed
\* with a non-transient error (msg), or whose sends all succeeded (std), has
\* pushed the slot to the unfilled queue in the all-zero cursor state and
\* apply goes on with the next filled slot; and whenever an iteration of
\* Tx::apply adds a slot to the unfilled queue, that slot is in the all-zero
\* cursor state.
TxReturnsCleanSlots ==
    TxStepOnSlot =>
        /\ ( \/ last.op = "tx_step" /\ last.res.result \in {"Ok", "Other"}
             \/ last.op = "std_tx_step" /\ last.res.result = AllSent )
           => TxReturnedClean
        /\ Len(unfilled) > last.res.len => TxReturnedClean

\* sendmsg failed with a non-transient error on a slot of two segments, which
\* is back in the unfilled queue
DroppedPacketReturned ==
    /\ TxStepOnSlot
    /\ last.op = "tx_step" /\ last.res.result = "Other"
    /\ last.res.entry[1].segment_count = 2
    /\ TxReturnedClean

\* the iteration of msg Tx::apply that led to the state had its sendmsg fail
\* with WouldBlock, or with Interrupted when count was not 0
TransientSendError ==
    /\ TxStepOnSlot
    /\ last.op = "tx_step"
    /\ \/ last.res.result = "WouldBlock"
       \/ last.res.result = "Interrupted" /\ last.res.next # "continue"

\* C27: after a sendmsg of msg Tx::apply failed with WouldBlock (or with
\* Interrupted after the immediate retry), the slot is in the buffer of the
\* Filled end as it was popped (cursors, handle and ECN), the unfilled queue
\* has gained nothing and apply has returned the error; a buffered slot stays
\* in the buffer until the next apply, and an iteration of Tx::apply that
\* starts with a slot in the buffer makes its sendmsg on that slot.
TransientErrorKeepsPacket ==
    /\ [](TransientSendError =>
             /\ last.res.next = "return_err"
             /\ fbuf = last.res.entry
             /\ Len(unfilled) = last.res.len
             /\ fslice = "none")
    /\ [][wiring.consumer = "msg_tx" /\ fbuf # None =>
             /\ fslice = "none" => fbuf' = fbuf
             /\ fslice = "msg_tx" /\ last'.op = "tx_step" => last'.res.entry = fbuf]_vars

\* a sendmsg on a slot of two segments was interrupted a second time and
\* apply returned; another slot waits in the filled queue
InterruptedTwice ==
    /\ TransientSendError
    /\ last.res.result = "Interrupted"
    /\ fbuf # None /\ fbuf[1].segment_count = 2
    /\ filled # <<>>

\* the iteration of a socket RX driver that led to the state popped a slot
RxStepOnSlot ==
    /\ last.op \in {"rx_step", "std_rx_step"}
    /\ last.res.entry # None

\* C28: after an iteration of socket Rx::apply whose receive returned length
\* 0 or no remote address, the slot is in the buffer of the Unfilled end as it
\* was popped, the filled queue has gained nothing and the loop has stopped;
\* and no slot of the filled queue of the RX pair has segment_write_cursor = 0.
EmptyReceiveStops ==
    /\ ( /\ RxStepOnSlot
         /\ last.res.result.kind = "Ok"
         /\ last.res.result.len = 0 \/ ~last.res.result.addr )
       => /\ ubuf = last.res.entry
          /\ Len(filled) = last.res.len
          /\ uslice = "none"
    /\ wiring.producer \in {"msg_rx", "std_rx"} =>
           \A i \in 1..Len(filled) : filled[i].segment_write_cursor > 0

\* C29: an iteration of socket Rx::apply that received len bytes with a remote
\* address and goes on with its loop has pushed the slot to the filled queue with
\* segment_read_cursor = 0 and segment_write_cursor = len, and segment_size =
\* len and segment_count = 1 if the GRO segment size g is 0 (the std driver
\* has none), else segment_size = g and segment_count the least k with
\* k * g >= len; and when the consumer has read such a slot to its end,
\* next_segment has returned segment_count ranges.
RxSegmentComputation ==
    /\ ( /\ RxStepOnSlot
         /\ last.res.result.kind = "Ok" /\ last.res.result.addr
         /\ last.res.next = "continue" )
       => LET e == filled[Len(filled)]
              len == last.res.result.len
              g == IF last.op = "rx_step" THEN last.res.result.gro ELSE 0
          IN
          /\ Len(filled) = last.res.len + 1
          /\ e.segment_read_cursor = 0
          /\ e.segment_write_cursor = len
          /\ IF g = 0
             THEN e.segment_size = len /\ e.segment_count = 1
             ELSE /\ e.segment_size = g
                  /\ e.segment_count * g >= len
                  /\ e.segment_count > 0 => (e.segment_count - 1) * g < len
    /\ ( /\ wiring.producer \in {"msg_rx", "std_rx"}
         /\ hand # None
         /\ ReadFromZero(hand[1]) /\ Exhausted(hand[1]) /\ hand[1].reads # <<>> )
       => Len(hand[1].reads) = hand[1].segment_count
    /\ ( /\ wiring.producer \in {"msg_rx", "std_rx"}
         /\ hand # None
         /\ ReadFromZero(hand[1]) /\ last.op = "next_segment" /\ last.res = "None" )
       => Len(hand[1].reads) = hand[1].segment_count

\* C30: no call of msg Rx::apply or Tx::apply goes on forever on the slots
\* its slice holds: in every run, again and again, no Rx::apply is under way
\* or the consumer has just returned a slot to the unfilled queue, and no
\* Tx::apply is under way or the producer has just called push.
ApplyTerminates ==
    /\ []<>(uslice # "msg_rx" \/ last.op = "finish")
    /\ []<>(fslice # "msg_tx" \/ last.op = "push")

\* C31: in every iteration of the event loop after a Select that did not end
\* it, whatever rx_result and tx_result are, the transmit stage calls
\* endpoint.transmit once if tx.try_slice() succeeds and not at all if it
\* fails; the receive stage calls endpoint.receive exactly when rx_result is
\* Some(Ok) and rx.try_slice() succeeds; and no iteration holds two calls of
\* transmit or two of receive.
TransmitAlwaysAttempted ==
    /\ [][pc = "transmit" /\ pc' # pc =>
             IF UnfilledTrySliceOk
             THEN calls' = Append(calls, "transmit") /\ pc' = "transmitting"
             ELSE calls' = calls /\ pc' = "timeout"]_vars
    /\ [][pc = "receive" /\ pc' # pc =>
             IF rx_result = "Ok" /\ RxPairTrySliceOk
             THEN calls' = Append(calls, "receive")
             ELSE calls' = calls]_vars
    /\ [](\A i, j \in 1..Len(calls) : calls[i] = calls[j] => i = j)

\* the loop woke with neither rx_task nor tx_task ready (a wakeup or the
\* timer) and endpoint.transmit is running
TransmitWithoutReadiness ==
    /\ pc = "transmitting" /\ uslice = "push"
    /\ rx_result = "None" /\ tx_result = "None"
    /\ calls = <<"transmit">>

\* C32: the timeout stage of an iteration, which comes after its receive and
\* its transmit stage, sets the timer to ts and counts one update when
\* endpoint.timeout() returned Some(ts), and leaves the timer as it was, with
\* no update, when it returned None; no other step of the loop or of the
\* socket tasks changes the timer; and an iteration holds at most one update,
\* after every call of the endpoint.
TimerProgramming ==
    /\ [][pc = "timeout" /\ pc' # pc =>
             /\ last'.op = "timeout"
             /\ IF last'.res = None
                THEN timer' = timer /\ calls' = calls
                ELSE timer' = last'.res /\ calls' = Append(calls, "update")]_vars
    /\ [][pc # "timeout" => timer' = timer]_vars
    /\ [](\A i \in 1..Len(calls) : calls[i] = "update" => i = Len(calls) /\ pc = "select")

\* the timer keeps the deadline of an earlier iteration through an iteration
\* that called receive and transmit and whose endpoint.timeout() was None
DeadlineKept ==
    /\ last.op = "timeout" /\ last.res = None
    /\ timer = Some(MaxTime)
    /\ calls = <<"receive", "transmit">>

\* C33: the slice that FilledSet::poll_slice returns has its cursor on the
\* lowest pair that was ready; a pop of a FilledSetSlice moves the cursor over
\* pairs that have nothing and over no other pair, gives the first slot of the
\* pair the cursor stops at, and gives None only when no pair at or after the
\* cursor had a slot, the cursor being then at the end of the set; and the
\* cursor of a slice never moves backwards.
DrainOrder ==
    /\ [](last.op = "set_poll" =>
             /\ set_cursor # None /\ set_cursor[1] \in last.res
             /\ \A q \in last.res : set_cursor[1] <= q)
    /\ [](last.op = "set_pop" =>
             LET r == last.res
                 k == set_cursor[1]
             IN  /\ r.from <= k
                 /\ \A j \in r.from..(k - 1) : j \in r.empty
                 /\ IF r.entry = None
                    THEN k = SetN /\ \A j \in SetPairs : j >= r.from => j \in r.empty
                    ELSE /\ k \in SetPairs \ r.empty
                         /\ r.entry[1].queue = k
                         /\ r.entry[1] \in set_hand)
    /\ [][set_cursor # None /\ set_cursor' # None => set_cursor'[1] >= set_cursor[1]]_vars

\* a pop has moved the cursor over a pair that had nothing and has given a
\* slot of a later pair
DrainSkipsEmptyPair ==
    /\ last.op = "set_pop"
    /\ last.res.entry # None
    /\ last.res.from < set_cursor[1]

\* C34: when a poll of UnfilledSet::tx_ready completes with Ok, because the
\* queue of a pair reported readiness, the cursor of the set is the index of
\* that pair in the set, whatever the cursor was before the poll; and the
\* cursor is always one of 0 .. N - 1.
TxReadyCursor ==
    /\ cursor \in SetPairs
    /\ (last.op = "set_tx_ready" /\ last.res.result = "Ok") => Some(cursor) = last.res.pair

\* C35: on a pair whose Unfilled end is driven by push and whose Filled end is
\* driven by pop, next_segment and finish, push never indexes the data of a
\* slot out of bounds: the region segment_write_cursor ..
\* segment_write_cursor + segment_size it offers for a coalesced segment ends
\* within the data, and the write cursor of every slot of the pair, which is
\* segment_write_cursor + len after a push, is at most the length of the data.
InBoundsWrite ==
    /\ panicked # "panic_index"
    /\ \A i \in 1..Len(filled) : filled[i].segment_write_cursor <= MaxPayload
    /\ \A i \in 1..Len(unfilled) : unfilled[i].segment_write_cursor <= MaxPayload
    /\ ubuf # None =>
          /\ ubuf[1].segment_write_cursor <= MaxPayload
          /\ PushRegionEnd(ubuf[1], ubuf[1].segment_size) <= MaxPayload

\* C36: in the wiring of Io::start, where the socket TX task drains the
\* Filled end of the pair the event loop pushes to, every slot of the unfilled
\* queue, and so every slot push pops from it, at entry or after the flush of
\* a slot it cannot coalesce with, has segment_size = 0, segment_count = 0 and
\* both cursors 0.
FreshTxSlots ==
    (wiring.producer = "push" /\ wiring.consumer \in {"msg_tx", "std_tx"}) =>
        \A i \in 1..Len(unfilled) : AllZero(unfilled[i])

\* push has put more slots in the filled queue than the pair has, so it has
\* popped a slot that the socket TX task returned, and holds a slice
TxSlotReused ==
    /\ wiring.producer = "push" /\ wiring.consumer \in {"msg_tx", "std_tx"}
    /\ uslice = "push"
    /\ nextSeq > Count + 1
    /\ unfilled # <<>>

\* C37: on the TX pair no slot of the filled queue has segment_count = 0,
\* whether push put it there after its write, flushed it because the message
\* could not follow, or the drop of the slice flushed it; and every slot a
\* socket TX driver pops has segment_count >= 1.
NoEmptySlotSent ==
    (wiring.producer = "push" /\ wiring.consumer \in {"msg_tx", "std_tx"}) =>
        /\ \A i \in 1..Len(filled) : filled[i].segment_count >= 1
        /\ fbuf # None => fbuf[1].segment_count >= 1
        /\ (last.op \in {"tx_step", "std_tx_step"} /\ last.res.entry # None) =>
               last.res.entry[1].segment_count >= 1

\* the slice was dropped with a buffered slot that has no segment, left there
\* by a writer error after the flush of the slot before it, and the flush of
\* the drop kept it out of the filled queue
EmptySlotKeptOnDrop ==
    /\ wiring.producer = "push" /\ wiring.consumer \in {"msg_tx", "std_tx"}
    /\ uslice = "none"
    /\ ubuf # None /\ ubuf[1].segment_count = 0
    /\ filled # <<>>

\* C38: once the event loop has dropped the Filled end of the RX pair, the
\* loop of the socket RX task, while channel.ready().await.is_ok(), comes to
\* its end, whatever the unfilled queue holds at the time of the drop.
RxTaskShutdown == ("filled" \in closed) ~> (rxtask = "exited")

\* the ranges rs are the first Len(rs) segments of the slot e, in packing order
SentInOrder(rs, e) ==
    \A i \in 1..Len(rs) : rs[i] = Tile(i, e.segment_size, e.segment_write_cursor)

\* C39: in the stdlib Tx::apply a slot whose send failed is put back in the
\* buffer, and not in the unfilled queue, with its read cursor past exactly
\* the segments sent so far, which are its first segments in packing order,
\* each sent once, so that the segment that failed is the next one sent; and
\* when the last segment is sent the segments sent over all the calls are the
\* segments of the slot, each once and in order, and the slot is returned
\* to the unfilled queue reset.
ResumeWithoutDuplicates ==
    /\ (wiring.consumer = "std_tx" /\ fbuf # None) =>
          /\ SentInOrder(fbuf[1].reads, fbuf[1])
          /\ fbuf[1].segment_read_cursor = Len(fbuf[1].reads) * fbuf[1].segment_size
          /\ fbuf[1].segment_read_cursor < fbuf[1].segment_write_cursor
    /\ (last.op = "std_tx_step" /\ last.res.next = "return_err") =>
          /\ fbuf # None
          /\ Len(unfilled) = last.res.len
    /\ (last.op = "std_tx_step" /\ last.res.next = "continue") =>
          LET e == last.res.entry[1]
              all == e.reads \o StdSent(e, AllSent)
          IN  /\ SentInOrder(all, e)
              /\ all[Len(all)][2] = e.segment_write_cursor
              /\ Len(unfilled) = last.res.len + 1
              /\ AllZero(unfilled[Len(unfilled)])

\* the send of the second segment of a slot failed after the first was sent,
\* and a later call has sent it: the slot is returned with its two segments sent
ResumedAtSecondSegment ==
    /\ last.op = "std_tx_step" /\ last.res.next = "continue"
    /\ Len(last.res.entry[1].reads) = 1
    /\ last.res.entry[1].segment_read_cursor > 0
    /\ last.res.entry[1].segment_count = 2

\* the size of the ring is not a power of two
OddSized == \A n \in 0..CursorBits : counters.size # 2 ^ n

\* C40: for a ring of any size, a power of two or not, and counters that have
\* wrapped any number of times, an acquire_producer that loads the consumer
\* counter returns the number of free entries at the time of the load, an
\* acquire_consumer that loads the producer counter returns the number of
\* filled entries at the time of the load, and neither is above size.
WrappingCounts ==
    (last.op = "acquire" /\ last.res.loaded) =>
        /\ last.res.actual \in 0..counters.size
        /\ last.res.actual =
               IF last.res.side = "producer" THEN oracle.producer ELSE oracle.consumer
        /\ last.res.actual =
               IF last.res.side = "producer"
               THEN counters.size - U32(counters.producer - counters.consumer)
               ELSE U32(counters.producer - counters.consumer)

\* on a ring whose size is not a power of two, the producer has loaded a
\* consumer counter that is about to wrap, so that the sum with size has
\* wrapped, while the producer counter has wrapped already, and got a count
\* of free entries that is not 0
FreeCountAcrossWrap ==
    /\ last.op = "acquire" /\ last.res.side = "producer" /\ last.res.loaded
    /\ OddSized
    /\ counters.consumer + counters.size >= 2 ^ CursorBits
    /\ counters.producer < counters.size
    /\ last.res.actual > 0

====
